---- MODULE Spec2Model ----
(***************************************************************************)
(* Attendance engine of the futsal club site: the Jalali month value type, *)
(* the monthly attendance sheet with its session dates (populate / sync),  *)
(* attendance recording with the finalization lock, and the attendance     *)
(* matrix.  Payroll: coach salary breakdowns, their commit and the salary  *)
(* status pages; monthly player invoices and PlayerInvoice.save.  The      *)
(* store (Django ORM rows) is modelled as sets of records; primary keys    *)
(* are allocated as max(pk) + 1.                                           *)
(***************************************************************************)
EXTENDS Integers, Sequences, FiniteSets, TLC

VARIABLES
    current,        \* JalaliMonth.current(): the month of the wall clock
    schedules,      \* TrainingSchedule rows
    sheets,         \* AttendanceSheet rows
    session_dates,  \* SessionDate rows
    player_att,     \* PlayerAttendance rows
    coach_att,      \* CoachAttendance rows
    last,           \* the last operation: its arguments and what it returned
    prevCall,       \* the latest sheet request and whether the schedule changed since
    salaries,       \* CoachSalary rows
    rate_of,        \* CoachCategoryRate.session_rate per (coach, category)
    invoices,       \* PlayerInvoice rows
    monthly_fee,    \* TrainingCategory.monthly_fee per category
    notifications,  \* Notification rows, as the set of (recipient, type) present
    today,          \* jdatetime.date.today()
    reminders,      \* Notification rows of type insurance_expiry
    calls           \* requests in flight: what each has loaded so far

vars == <<current, schedules, sheets, session_dates, player_att,
          coach_att, last, prevCall, salaries, rate_of, invoices, monthly_fee,
          notifications, today, reminders, calls>>

\* The tables of the attendance pages and those of the finance pages.
attvars == <<schedules, sheets, session_dates, player_att, coach_att, prevCall>>

payvars == <<salaries, rate_of, invoices, monthly_fee, notifications>>

\* The day of the insurance sweep and its reminders.
insvars == <<today, reminders>>

\* Two requests served side by side.
racevars == <<calls>>

\* ------------------------------------------------------------------ bounds
MaxEntries == 2

\* ------------------------------------------------------------ sequence helpers
\* Max(...) or 0 of the ORM aggregate
SetMax(S) == IF S = {} THEN 0 ELSE CHOOSE x \in S : \A y \in S : y <= x

RECURSIVE SetToSeq(_)
SetToSeq(S) ==
    IF S = {} THEN <<>>
    ELSE LET x == CHOOSE y \in S : TRUE IN <<x>> \o SetToSeq(S \ {x})

NextPk(rows) == SetMax({r.pk : r \in rows}) + 1

\* ------------------------------------------------------------ jalali_utils.py
WEEKDAY_TO_JDT ==
    [w \in {"sat", "sun", "mon", "tue", "wed", "thu", "fri"} |->
        CASE w = "sat" -> 0 [] w = "sun" -> 1 [] w = "mon" -> 2 [] w = "tue" -> 3
          [] w = "wed" -> 4 [] w = "thu" -> 5 [] w = "fri" -> 6]

JalaliMonth(y, m) == [year |-> y, month |-> m]

JDate(y, m, d) == [year |-> y, month |-> m, day |-> d]

\* jdatetime.date.isleap: the 33-year cycle of the library
isleap(y) == (y % 33) \in {1, 5, 9, 13, 17, 22, 26, 30}

days_in_month(jm) ==
    IF jm.month <= 6 THEN 31
    ELSE IF jm.month <= 11 THEN 30
    ELSE IF isleap(jm.year) THEN 30 ELSE 29

\* Variant: the month wraps but the year is kept.
next_month_same_year(jm) == JalaliMonth(jm.year, (jm.month % 12) + 1)

next_month(jm) ==
    IF jm.month = 12 THEN JalaliMonth(jm.year + 1, 1)
    ELSE JalaliMonth(jm.year, jm.month + 1)

prev_month(jm) ==
    IF jm.month = 1 THEN JalaliMonth(jm.year - 1, 12)
    ELSE JalaliMonth(jm.year, jm.month - 1)

\* Days from 1403/01/01 (Wednesday 2024-03-20) to the given Jalali date.
RECURSIVE YearStart(_)
YearStart(y) ==
    IF y <= 1403 THEN 0
    ELSE YearStart(y - 1) + (IF isleap(y - 1) THEN 366 ELSE 365)

RECURSIVE MonthStart(_, _)
MonthStart(y, m) ==
    IF m = 1 THEN YearStart(y)
    ELSE MonthStart(y, m - 1) + days_in_month(JalaliMonth(y, m - 1))

DayIndex(jd) == MonthStart(jd.year, jd.month) + (jd.day - 1)

\* jdatetime.date.togregorian, as the proleptic Gregorian ordinal of the date
togregorian(jd) == 738965 + DayIndex(jd)

\* jdatetime.date.weekday: Saturday = 0 ... Friday = 6
weekday(jd) == (DayIndex(jd) + 4) % 7

all_days(jm) == [d \in 1..days_in_month(jm) |-> JDate(jm.year, jm.month, d)]

\* Variant: the days are collected schedule row by schedule row.
RECURSIVE days_per_row(_, _, _)
days_per_row(jm, weekdays, i) ==
    IF i > Len(weekdays) THEN <<>>
    ELSE SelectSeq(all_days(jm), LAMBDA d : weekday(d) = WEEKDAY_TO_JDT[weekdays[i]])
         \o days_per_row(jm, weekdays, i + 1)

days_for_weekdays_per_row(jm, weekdays) == days_per_row(jm, weekdays, 1)

\* weekdays is the list of weekday keys, one per schedule row (repeats allowed)
days_for_weekdays(jm, weekdays) ==
    LET target_ints == {WEEKDAY_TO_JDT[weekdays[i]] :
                            i \in {j \in DOMAIN weekdays : weekdays[j] \in DOMAIN WEEKDAY_TO_JDT}}
    IN SelectSeq(all_days(jm), LAMBDA d : weekday(d) \in target_ints)

\* ------------------------------------------------------------------ the store
Categories == {"c1", "c2"}

\* The category whose pages are exercised (c2 only shares players and coaches).
RequestCategories == {"c1"}

\* Schedule slots staff may add: (weekday, start_time); unique per category.
ScheduleSlots == {<<"sat", 17>>, <<"tue", 17>>}

ScheduleRow(c, slot) == [category |-> c, weekday |-> slot[1], start_time |-> slot[2]]

\* ------------------------------------------------- attendance_service.py: sheets
\* category.schedules.all() and the weekday list built from it
schedules_of(sched, c) == {s \in sched : s.category = c}

weekdays_of(sched, c) ==
    LET rows == SetToSeq(schedules_of(sched, c))
    IN [i \in DOMAIN rows |-> rows[i].weekday]

\* Variant: the comparison looks at the month number alone.
is_future_by_month(jalali_month, cur) == jalali_month.month > cur.month

\* (jalali_month.year, jalali_month.month) > (current.year, current.month)
is_future(jalali_month, cur) ==
    \/ jalali_month.year > cur.year
    \/ jalali_month.year = cur.year /\ jalali_month.month > cur.month

\* Variant: every month that is not in the future is taken for the current one.
is_current_or_past(jalali_month, cur) == TRUE

is_current(jalali_month, cur) ==
    jalali_month.year = cur.year /\ jalali_month.month = cur.month

\* Variant: the lookup of get_or_create never finds the row.
sheet_lookup_misses(shs, c, jm) == {}

\* AttendanceSheet.objects.filter(category=, jalali_year=, jalali_month=)
sheet_lookup(shs, c, jm) ==
    {s \in shs : s.category = c /\ s.jalali_year = jm.year /\ s.jalali_month = jm.month}

\* SessionDate.objects.get_or_create(sheet=, date=, defaults={"session_number": n})
session_get_or_create(rows, sheet_pk, date, number) ==
    IF \E r \in rows : r.sheet = sheet_pk /\ r.date = date
    THEN rows
    ELSE rows \cup {[pk |-> NextPk(rows), sheet |-> sheet_pk, date |-> date,
                     session_number |-> number]}

RECURSIVE populate_loop(_, _, _, _)
populate_loop(rows, sheet_pk, matching_days, idx) ==
    IF idx > Len(matching_days) THEN rows
    ELSE populate_loop(
            session_get_or_create(rows, sheet_pk, togregorian(matching_days[idx]), idx),
            sheet_pk, matching_days, idx + 1)

populate_session_dates(rows, sheet_pk, c, jm, sched) ==
    IF schedules_of(sched, c) = {} THEN rows
    ELSE populate_loop(rows, sheet_pk, days_for_weekdays(jm, weekdays_of(sched, c)), 1)

RECURSIVE sync_loop(_, _, _, _, _, _)
sync_loop(rows, sheet_pk, matching_days, existing_dates, last_num, idx) ==
    IF idx > Len(matching_days) THEN rows
    ELSE LET greg_date == togregorian(matching_days[idx])
         IN sync_loop(
                IF greg_date \notin existing_dates
                THEN session_get_or_create(rows, sheet_pk, greg_date, last_num + idx)
                ELSE rows,
                sheet_pk, matching_days, existing_dates, last_num, idx + 1)

\* Variant: the synchronization rebuilds the sheet's sessions from the schedule.
sync_session_dates_rebuild(rows, sheet_pk, c, jm, sched) ==
    populate_session_dates({r \in rows : r.sheet # sheet_pk}, sheet_pk, c, jm, sched)

sync_session_dates(rows, sheet_pk, c, jm, sched) ==
    IF schedules_of(sched, c) = {} THEN rows
    ELSE LET of_sheet == {r \in rows : r.sheet = sheet_pk}
             existing_dates == {r.date : r \in of_sheet}
             last_num == SetMax({r.session_number : r \in of_sheet})
         IN sync_loop(rows, sheet_pk, days_for_weekdays(jm, weekdays_of(sched, c)),
                      existing_dates, last_num, 1)

\* Returns the store after the call, the sheet's pk (0 for None) and created.
get_or_create_sheet(shs, rows, c, jm, cur, sched) ==
    LET found == sheet_lookup(shs, c, jm)
    IN IF is_future(jm, cur)
       THEN [sheets |-> shs, session_dates |-> rows, created |-> FALSE, path |-> "future",
             sheet |-> IF found = {} THEN 0 ELSE (CHOOSE s \in found : TRUE).pk]
       ELSE IF found = {}
       THEN LET pk == NextPk(shs)
            IN [sheets |-> shs \cup {[pk |-> pk, category |-> c, jalali_year |-> jm.year,
                                      jalali_month |-> jm.month, is_finalized |-> FALSE,
                                      finalized_at |-> <<>>, finalized_by |-> <<>>]},
                session_dates |-> populate_session_dates(rows, pk, c, jm, sched),
                created |-> TRUE, path |-> "populate", sheet |-> pk]
       ELSE LET pk == (CHOOSE s \in found : TRUE).pk
            IN IF is_current(jm, cur)
               THEN [sheets |-> shs,
                     session_dates |-> sync_session_dates(rows, pk, c, jm, sched),
                     created |-> FALSE, path |-> "sync", sheet |-> pk]
               ELSE [sheets |-> shs, session_dates |-> rows,
                     created |-> FALSE, path |-> "past", sheet |-> pk]

\* ---------------------------------------------- attendance_service.py: recording
\* Player and Coach tables; names are given by their collation rank.
\* insurance_expiry_date is <<>> for NULL or <<date>>.
Players ==
    {[pk |-> 1, first_name |-> 2, last_name |-> 1, categories |-> {"c1"},
      status |-> "approved", is_archived |-> FALSE, has_user |-> TRUE,
      insurance_status |-> "active",
      insurance_expiry_date |-> <<JDate(1404, 1, 29)>>],
     [pk |-> 2, first_name |-> 1, last_name |-> 1, categories |-> {"c1", "c2"},
      status |-> "approved", is_archived |-> FALSE, has_user |-> TRUE,
      insurance_status |-> "active",
      insurance_expiry_date |-> <<JDate(1403, 12, 30)>>],
     [pk |-> 3, first_name |-> 1, last_name |-> 2, categories |-> {"c1"},
      status |-> "archived", is_archived |-> TRUE, has_user |-> TRUE,
      insurance_status |-> "active",
      insurance_expiry_date |-> <<JDate(1404, 1, 10)>>],
     [pk |-> 4, first_name |-> 1, last_name |-> 3, categories |-> {"c1"},
      status |-> "pending", is_archived |-> FALSE, has_user |-> TRUE,
      insurance_status |-> "active",
      insurance_expiry_date |-> <<JDate(1404, 1, 10)>>],
     [pk |-> 5, first_name |-> 1, last_name |-> 4, categories |-> {"c2"},
      status |-> "approved", is_archived |-> FALSE, has_user |-> FALSE,
      insurance_status |-> "expired",
      insurance_expiry_date |-> <<JDate(1404, 1, 10)>>],
     [pk |-> 6, first_name |-> 1, last_name |-> 5, categories |-> {},
      status |-> "approved", is_archived |-> FALSE, has_user |-> TRUE,
      insurance_status |-> "active",
      insurance_expiry_date |-> <<>>],
     [pk |-> 7, first_name |-> 1, last_name |-> 6, categories |-> {},
      status |-> "approved", is_archived |-> FALSE, has_user |-> TRUE,
      insurance_status |-> "active",
      insurance_expiry_date |-> <<JDate(1404, 3, 1)>>]}

Coaches ==
    {[pk |-> 1, first_name |-> 1, last_name |-> 2, is_active |-> TRUE],
     [pk |-> 2, first_name |-> 1, last_name |-> 1, is_active |-> TRUE],
     [pk |-> 3, first_name |-> 1, last_name |-> 3, is_active |-> FALSE],
     [pk |-> 4, first_name |-> 0, last_name |-> 1, is_active |-> TRUE]}

CoachCategoryRates ==
    {[coach |-> 1, category |-> "c1", is_active |-> TRUE],
     [coach |-> 2, category |-> "c1", is_active |-> FALSE],
     [coach |-> 2, category |-> "c2", is_active |-> TRUE],
     [coach |-> 3, category |-> "c1", is_active |-> TRUE],
     [coach |-> 4, category |-> "c2", is_active |-> TRUE]}

\* item.get("status", AttendanceStatus.ABSENT) and item.get("note", "")
item_status(item) == IF "status" \in DOMAIN item THEN item.status ELSE "absent"

item_note(item) == IF "note" \in DOMAIN item THEN item.note ELSE ""

\* Variant: create() in place of update_or_create().
player_create(rows, session_pk, player_id, status, note) ==
    rows \cup {[session |-> session_pk, player |-> player_id,
                status |-> status, note |-> note]}

\* PlayerAttendance.objects.update_or_create(session=, player_id=, defaults=)
player_update_or_create(rows, session_pk, player_id, status, note) ==
    IF \E r \in rows : r.session = session_pk /\ r.player = player_id
    THEN {IF r.session = session_pk /\ r.player = player_id
          THEN [r EXCEPT !.status = status, !.note = note] ELSE r : r \in rows}
    ELSE rows \cup {[session |-> session_pk, player |-> player_id,
                     status |-> status, note |-> note]}

coach_update_or_create(rows, session_pk, coach_id, status, note) ==
    IF \E r \in rows : r.session = session_pk /\ r.coach = coach_id
    THEN {IF r.session = session_pk /\ r.coach = coach_id
          THEN [r EXCEPT !.status = status, !.note = note] ELSE r : r \in rows}
    ELSE rows \cup {[session |-> session_pk, coach |-> coach_id,
                     status |-> status, note |-> note]}

\* The loop over attendance_data; item["player_id"] raises KeyError when absent.
RECURSIVE player_loop(_, _, _, _)
player_loop(rows, session_pk, attendance_data, i) ==
    IF i > Len(attendance_data) THEN [ok |-> TRUE, rows |-> rows, written |-> i - 1]
    ELSE IF "player_id" \notin DOMAIN attendance_data[i]
    THEN [ok |-> FALSE, rows |-> rows, written |-> i - 1]
    ELSE player_loop(
            player_update_or_create(rows, session_pk, attendance_data[i].player_id,
                                    item_status(attendance_data[i]),
                                    item_note(attendance_data[i])),
            session_pk, attendance_data, i + 1)

RECURSIVE coach_loop(_, _, _, _)
coach_loop(rows, session_pk, attendance_data, i) ==
    IF i > Len(attendance_data) THEN [ok |-> TRUE, rows |-> rows, written |-> i - 1]
    ELSE IF "coach_id" \notin DOMAIN attendance_data[i]
    THEN [ok |-> FALSE, rows |-> rows, written |-> i - 1]
    ELSE coach_loop(
            coach_update_or_create(rows, session_pk, attendance_data[i].coach_id,
                                   item_status(attendance_data[i]),
                                   item_note(attendance_data[i])),
            session_pk, attendance_data, i + 1)

\* Variant: no transaction, every write stays.
autocommit(before, after, ok) == after

\* @transaction.atomic: what the store holds when the block is left
atomic(before, after, ok) == IF ok THEN after ELSE before

\* Variant: the lock is never seen.
session_sheet_never_finalized(shs, sds, session_pk) == FALSE

\* session.sheet.is_finalized
session_sheet_is_finalized(shs, sds, session_pk) ==
    \E sd \in sds : /\ sd.pk = session_pk
                    /\ \E sh \in shs : sh.pk = sd.sheet /\ sh.is_finalized

\* Variant: the session's rows are replaced by the entries of the call.
record_player_attendance_replacing(shs, sds, rows, session_pk, attendance_data) ==
    IF session_sheet_is_finalized(shs, sds, session_pk)
    THEN [ok |-> FALSE, rows |-> rows, written |-> 0]
    ELSE LET r == player_loop({x \in rows : x.session # session_pk}, session_pk,
                              attendance_data, 1)
         IN [ok |-> r.ok, rows |-> atomic(rows, r.rows, r.ok), written |-> r.written]

record_player_attendance(shs, sds, rows, session_pk, attendance_data) ==
    IF session_sheet_is_finalized(shs, sds, session_pk)
    THEN [ok |-> FALSE, rows |-> rows, written |-> 0]
    ELSE LET r == player_loop(rows, session_pk, attendance_data, 1)
         IN [ok |-> r.ok, rows |-> atomic(rows, r.rows, r.ok), written |-> r.written]

record_coach_attendance(shs, sds, rows, session_pk, attendance_data) ==
    IF session_sheet_is_finalized(shs, sds, session_pk)
    THEN [ok |-> FALSE, rows |-> rows, written |-> 0]
    ELSE LET r == coach_loop(rows, session_pk, attendance_data, 1)
         IN [ok |-> r.ok, rows |-> atomic(rows, r.rows, r.ok), written |-> r.written]

\* Both lists in one outer transaction; an exception of either call leaves it.
record_full_session(shs, sds, prows, crows, session_pk, player_data, coach_data) ==
    LET p == record_player_attendance(shs, sds, prows, session_pk, player_data)
    IN IF ~p.ok
       THEN [ok |-> FALSE, written |-> p.written,
             players |-> atomic(prows, p.rows, FALSE), coaches |-> crows]
       ELSE LET c == record_coach_attendance(shs, sds, crows, session_pk, coach_data)
            IN [ok |-> c.ok, written |-> p.written + c.written,
                players |-> atomic(prows, p.rows, c.ok),
                coaches |-> atomic(crows, c.rows, c.ok)]

\* finalize_sheet without the "already finalized" check
finalize_sheet_again(shs, sheet_pk, now, finalized_by) ==
    LET sheet == CHOOSE sh \in shs : sh.pk = sheet_pk
    IN [ok |-> TRUE,
        sheets |-> (shs \ {sheet}) \cup {[sheet EXCEPT !.is_finalized = TRUE,
                                                       !.finalized_at = <<now>>,
                                                       !.finalized_by = <<finalized_by>>]}]

\* A NULL column is the empty sequence, a set one holds its value; timezone.now()
\* is read at the granularity of the model's clock, the current Jalali month.
finalize_sheet(shs, sheet_pk, now, finalized_by) ==
    LET sheet == CHOOSE sh \in shs : sh.pk = sheet_pk
    IN IF sheet.is_finalized
       THEN [ok |-> FALSE, sheets |-> shs]
       ELSE [ok |-> TRUE,
             sheets |-> (shs \ {sheet}) \cup {[sheet EXCEPT !.is_finalized = TRUE,
                                                            !.finalized_at = <<now>>,
                                                            !.finalized_by = <<finalized_by>>]}]

\* ------------------------------------------------- attendance_service.py: matrix
\* order_by over a set of rows: repeatedly take the row with the least key
RECURSIVE SortKeyed(_)
SortKeyed(keyed) ==
    IF keyed = {} THEN <<>>
    ELSE LET first == CHOOSE r \in keyed :
                          \A o \in keyed : o = r \/ r.k < o.k
                                             \/ (r.k = o.k /\ r.row.pk < o.row.pk)
         IN <<first.row>> \o SortKeyed(keyed \ {first})

\* Variant: every player of the category.
matrix_players_unfiltered(c) ==
    SortKeyed({[k |-> pl.last_name * 100 + pl.first_name, row |-> pl] :
                    pl \in {x \in Players : c \in x.categories}})

\* category.players.filter(is_archived=False, status="approved")
\*         .order_by("last_name", "first_name")
matrix_players(c) ==
    SortKeyed({[k |-> pl.last_name * 100 + pl.first_name, row |-> pl] :
                    pl \in {x \in Players : c \in x.categories /\ ~x.is_archived
                                                /\ x.status = "approved"}})

\* Coach.objects.filter(coachcategoryrate__category=, coachcategoryrate__is_active=True,
\*                      is_active=True).distinct().order_by("last_name")
\* Rows with an equal last_name come back in whichever order the database
\* produces them: tie names the order among them.
matrix_coaches(c, tie) ==
    SortKeyed({[k |-> co.last_name * 100
                        + (IF tie = "ascending" THEN co.pk ELSE 99 - co.pk),
                row |-> co] :
                    co \in {x \in Coaches : /\ x.is_active
                                             /\ \E rate \in CoachCategoryRates :
                                                    /\ rate.coach = x.pk
                                                    /\ rate.category = c
                                                    /\ rate.is_active}})

\* The orders the database may give rows that order_by leaves tied
TieOrders == {"ascending", "descending"}

player_status_or_absent(prows, sid, player_pk) ==
    IF \E r \in prows : r.session = sid /\ r.player = player_pk
    THEN (CHOOSE r \in prows : r.session = sid /\ r.player = player_pk).status
    ELSE "absent"

coach_status_or_absent(crows, sid, coach_pk) ==
    IF \E r \in crows : r.session = sid /\ r.coach = coach_pk
    THEN (CHOOSE r \in crows : r.session = sid /\ r.coach = coach_pk).status
    ELSE "absent"

\* The AttendanceMatrixResult for a sheet (0 for None) over the store after
\* get_or_create_sheet.
matrix_result(sheet_pk, sds, prows, crows, c, tie) ==
    IF sheet_pk = 0
    THEN [sheet |-> 0, session_dates |-> <<>>, player_rows |-> <<>>, coach_rows |-> <<>>]
    ELSE LET ordered == SortKeyed({[k |-> sd.date, row |-> sd] :
                                        sd \in {x \in sds : x.sheet = sheet_pk}})
             session_ids == {ordered[i].pk : i \in DOMAIN ordered}
             players == matrix_players(c)
             coaches == matrix_coaches(c, tie)
         IN [sheet |-> sheet_pk,
             session_dates |-> [i \in DOMAIN ordered |-> ordered[i].pk],
             player_rows |->
                [i \in DOMAIN players |->
                    [entity_id |-> players[i].pk, entity_type |-> "player",
                     sessions |-> [sid \in session_ids |->
                                     player_status_or_absent(prows, sid, players[i].pk)]]],
             coach_rows |->
                [i \in DOMAIN coaches |->
                    [entity_id |-> coaches[i].pk, entity_type |-> "coach",
                     sessions |-> [sid \in session_ids |->
                                     coach_status_or_absent(crows, sid, coaches[i].pk)]]]]

\* ------------------------------------------------- payroll_service.py: salaries
Max0(n) == IF n > 0 THEN n ELSE 0

\* CoachSalary.save: both amounts are recomputed from the row at every save
CoachSalary_save(row) ==
    LET base == row.sessions_attended * row.session_rate
    IN [row EXCEPT !.base_amount = base, !.final_amount = base + row.manual_adjustment]

\* The rows of CoachAttendance.objects.filter(session__sheet=sheet, coach=coach)
coach_att_qs(sds, crows, sheet_pk, coach) ==
    {a \in crows : /\ a.coach = coach
                   /\ \E sd \in sds : sd.pk = a.session /\ sd.sheet = sheet_pk}

\* Variant: the status filter is dropped from the count.
count_any_status(qs, status) == Cardinality(qs)

\* qs.filter(status=status).count()
count_status(qs, status) == Cardinality({a \in qs : a.status = status})

\* calculate_coach_salary: the breakdown, or the ValueError of a missing active rate
\* or a missing sheet.  It reads the tables and writes none.
calculate_coach_salary(rates, shs, sds, crows, sals, coach, c, jm, manual_adjustment) ==
    LET rate_rows == {r \in CoachCategoryRates :
                         r.coach = coach /\ r.category = c /\ r.is_active}
        found == sheet_lookup(shs, c, jm)
    IN IF rate_rows = {} THEN [ok |-> FALSE, error |-> "no_rate"]
       ELSE IF found = {} THEN [ok |-> FALSE, error |-> "no_sheet"]
       ELSE LET sheet == CHOOSE s \in found : TRUE
                session_rate == rates[<<coach, c>>]
                sessions_total == Cardinality({sd \in sds : sd.sheet = sheet.pk})
                qs == coach_att_qs(sds, crows, sheet.pk, coach)
                sessions_attended == count_status(qs, "present")
                sessions_excused == count_status(qs, "excused")
                sessions_absent == sessions_total - sessions_attended - sessions_excused
                base_amount == session_rate * sessions_attended
                existing == {s \in sals : /\ s.coach = coach /\ s.category = c
                                          /\ s.attendance_sheet = sheet.pk}
            IN [ok |-> TRUE, coach |-> coach, category |-> c, jalali_month |-> jm,
                session_rate |-> session_rate, sessions_total |-> sessions_total,
                sessions_attended |-> sessions_attended,
                sessions_excused |-> sessions_excused,
                sessions_absent |-> Max0(sessions_absent),
                base_amount |-> base_amount,
                manual_adjustment |-> manual_adjustment,
                final_amount |-> base_amount + manual_adjustment,
                existing_salary |-> {s.pk : s \in existing}]

\* Variant: objects.create in place of update_or_create.
salary_create(sals, key, defaults) ==
    LET row == CoachSalary_save(
                   [pk |-> NextPk(sals), coach |-> key.coach, category |-> key.category,
                    attendance_sheet |-> key.attendance_sheet,
                    sessions_attended |-> defaults.sessions_attended,
                    session_rate |-> defaults.session_rate,
                    base_amount |-> defaults.base_amount,
                    manual_adjustment |-> defaults.manual_adjustment,
                    final_amount |-> defaults.final_amount,
                    status |-> defaults.status, paid_at |-> <<>>,
                    processed_by |-> defaults.processed_by,
                    coach_confirmed |-> FALSE, coach_confirmed_at |-> <<>>])
    IN [rows |-> sals \cup {row}, pk |-> row.pk]

\* CoachSalary.objects.update_or_create(coach=, category=, attendance_sheet=,
\* defaults=...): the row of the key gets the defaults and is saved, or is created.
salary_update_or_create(sals, key, defaults) ==
    LET existing == {s \in sals : /\ s.coach = key.coach /\ s.category = key.category
                                  /\ s.attendance_sheet = key.attendance_sheet}
    IN IF existing # {}
       THEN LET old == CHOOSE s \in existing : TRUE
                row == CoachSalary_save(
                           [old EXCEPT !.sessions_attended = defaults.sessions_attended,
                                       !.session_rate = defaults.session_rate,
                                       !.base_amount = defaults.base_amount,
                                       !.manual_adjustment = defaults.manual_adjustment,
                                       !.final_amount = defaults.final_amount,
                                       !.status = defaults.status,
                                       !.processed_by = defaults.processed_by])
            IN [rows |-> (sals \ {old}) \cup {row}, pk |-> row.pk]
       ELSE LET row == CoachSalary_save(
                           [pk |-> NextPk(sals), coach |-> key.coach,
                            category |-> key.category,
                            attendance_sheet |-> key.attendance_sheet,
                            sessions_attended |-> defaults.sessions_attended,
                            session_rate |-> defaults.session_rate,
                            base_amount |-> defaults.base_amount,
                            manual_adjustment |-> defaults.manual_adjustment,
                            final_amount |-> defaults.final_amount,
                            status |-> defaults.status, paid_at |-> <<>>,
                            processed_by |-> defaults.processed_by,
                            coach_confirmed |-> FALSE, coach_confirmed_at |-> <<>>])
            IN [rows |-> sals \cup {row}, pk |-> row.pk]

\* Notification.objects.create(recipient=, type=, ...)
notification_create(notes, recipient, type) ==
    notes \cup {[recipient |-> recipient, type |-> type]}

\* commit_coach_salary under @transaction.atomic.  Coach.user is a non-null
\* one-to-one field, so the notification is always attempted; notified is whether
\* Notification.objects.create returned.  Its exception is not caught: it leaves
\* the atomic block, which undoes the salary write, and reaches the caller.
commit_coach_salary(shs, sals, notes, breakdown, processed_by, notified) ==
    LET found == sheet_lookup(shs, breakdown.category, breakdown.jalali_month)
    IN IF found = {} THEN [ok |-> FALSE, salaries |-> sals, notifications |-> notes,
                           salary |-> 0]
       ELSE LET sheet == CHOOSE s \in found : TRUE
                w == salary_update_or_create(sals,
                        [coach |-> breakdown.coach, category |-> breakdown.category,
                         attendance_sheet |-> sheet.pk],
                        [sessions_attended |-> breakdown.sessions_attended,
                         session_rate |-> breakdown.session_rate,
                         base_amount |-> breakdown.base_amount,
                         manual_adjustment |-> breakdown.manual_adjustment,
                         final_amount |-> breakdown.final_amount,
                         status |-> "calculated",
                         processed_by |-> <<processed_by>>])
                sent == notification_create(notes, <<"coach", breakdown.coach>>,
                                            "salary_ready")
            IN [ok |-> notified,
                salaries |-> atomic(sals, w.rows, notified),
                notifications |-> atomic(notes, sent, notified),
                salary |-> IF notified THEN w.pk ELSE 0]

\* approve_salary: ValueError unless the salary is calculated
approve_salary(sals, salary_pk, approved_by) ==
    LET salary == CHOOSE s \in sals : s.pk = salary_pk
    IN IF salary.status # "calculated" THEN [ok |-> FALSE, salaries |-> sals]
       ELSE [ok |-> TRUE,
             salaries |-> (sals \ {salary})
                          \cup {[salary EXCEPT !.status = "approved",
                                               !.processed_by = <<approved_by>>]}]

\* mark_salary_paid: ValueError unless the salary is approved
mark_salary_paid(sals, salary_pk, now, paid_by) ==
    LET salary == CHOOSE s \in sals : s.pk = salary_pk
    IN IF salary.status # "approved" THEN [ok |-> FALSE, salaries |-> sals]
       ELSE [ok |-> TRUE,
             salaries |-> (sals \ {salary})
                          \cup {[salary EXCEPT !.status = "paid", !.paid_at = <<now>>,
                                               !.processed_by = <<paid_by>>]}]

\* ------------------------------------------------- payroll_service.py: invoices
\* Variant: a discount above the amount is clamped and stored.
PlayerInvoice_save_clamped(rows, row) ==
    LET discount == IF row.discount > row.amount THEN row.amount ELSE row.discount
        saved == [row EXCEPT !.discount = discount, !.final_amount = row.amount - discount]
    IN [ok |-> TRUE, rows |-> {r \in rows : r.pk # row.pk} \cup {saved}]

\* PlayerInvoice.save: ValueError before the write when discount > amount;
\* otherwise final_amount is recomputed and the row is inserted or updated.
PlayerInvoice_save(rows, row) ==
    IF row.discount > row.amount
    THEN [ok |-> FALSE, rows |-> rows]
    ELSE LET saved == [row EXCEPT !.final_amount = row.amount - row.discount]
         IN [ok |-> TRUE, rows |-> {r \in rows : r.pk # row.pk} \cup {saved}]

invoice_of_key(rows, key) ==
    {r \in rows : /\ r.player = key.player /\ r.category = key.category
                  /\ r.jalali_year = key.jalali_year /\ r.jalali_month = key.jalali_month}

\* Variant: create in place of get_or_create.
invoice_create(rows, key, defaults) ==
    LET w == PlayerInvoice_save(rows,
                 [pk |-> NextPk(rows), player |-> key.player, category |-> key.category,
                  jalali_year |-> key.jalali_year, jalali_month |-> key.jalali_month,
                  amount |-> defaults.amount, discount |-> defaults.discount,
                  final_amount |-> defaults.final_amount, status |-> defaults.status])
    IN [ok |-> w.ok, created |-> w.ok, rows |-> w.rows, pk |-> NextPk(rows)]

\* Variant: update_or_create in place of get_or_create.
invoice_update_or_create(rows, key, defaults) ==
    LET existing == invoice_of_key(rows, key)
        old == IF existing # {} THEN CHOOSE r \in existing : TRUE
               ELSE [pk |-> NextPk(rows), player |-> key.player,
                     category |-> key.category, jalali_year |-> key.jalali_year,
                     jalali_month |-> key.jalali_month, amount |-> 0, discount |-> 0,
                     final_amount |-> 0, status |-> "pending"]
        w == PlayerInvoice_save(rows,
                 [old EXCEPT !.amount = defaults.amount, !.discount = defaults.discount,
                             !.final_amount = defaults.final_amount,
                             !.status = defaults.status])
    IN [ok |-> w.ok, created |-> w.ok /\ existing = {}, rows |-> w.rows, pk |-> old.pk]

\* PlayerInvoice.objects.get_or_create(player=, category=, jalali_year=,
\* jalali_month=, defaults=...): the existing row untouched, or a row created
\* through save inside a savepoint
invoice_get_or_create(rows, key, defaults) ==
    LET existing == invoice_of_key(rows, key)
    IN IF existing # {}
       THEN [ok |-> TRUE, created |-> FALSE, rows |-> rows,
             pk |-> (CHOOSE r \in existing : TRUE).pk]
       ELSE LET w == PlayerInvoice_save(rows,
                         [pk |-> NextPk(rows), player |-> key.player,
                          category |-> key.category, jalali_year |-> key.jalali_year,
                          jalali_month |-> key.jalali_month,
                          amount |-> defaults.amount, discount |-> defaults.discount,
                          final_amount |-> defaults.final_amount,
                          status |-> defaults.status])
            IN [ok |-> w.ok, created |-> w.ok, rows |-> w.rows, pk |-> NextPk(rows)]

\* category.players.filter(status="approved", is_archived=False) in the order of
\* Player.Meta.ordering
active_players(c) ==
    SortKeyed({[k |-> pl.last_name * 100 + pl.first_name, row |-> pl] :
                    pl \in {x \in Players : c \in x.categories /\ x.status = "approved"
                                                /\ ~x.is_archived}})

\* What becomes of _notify_player_invoice for a player with a user account:
\* "none" it returns; "format" it raises before the insert is sent (building the
\* title or the message); "save" the insert of the Notification raises.  Model.save
\* marks the surrounding transaction for rollback when the insert raises, so after
\* "save" every query of the open transaction raises and the transaction is
\* undone when its block is left, although the exception was caught.
NotifyOutcomes == {"none", "format", "save"}

\* The body of the loop for one player, on the state of the run: the tables, the
\* created invoices, the skipped count, the errors and whether the transaction
\* is marked for rollback.
invoice_step(st, player, c, jm, fee, outcome) ==
    IF st.broken
    THEN [st EXCEPT !.errors = Append(@, [player |-> player.pk,
                                          reason |-> "TransactionManagementError"])]
    ELSE LET g == invoice_get_or_create(st.rows,
                      [player |-> player.pk, category |-> c, jalali_year |-> jm.year,
                       jalali_month |-> jm.month],
                      [amount |-> fee, discount |-> 0, final_amount |-> fee,
                       status |-> "pending"])
         IN IF ~g.ok
            THEN [st EXCEPT !.errors = Append(@, [player |-> player.pk,
                                                  reason |-> "ValueError"])]
            ELSE IF ~g.created
            THEN [st EXCEPT !.rows = g.rows, !.skipped = @ + 1]
            ELSE LET made == [st EXCEPT !.rows = g.rows, !.invoices = Append(@, g.pk)]
                 IN IF ~player.has_user THEN made
                    ELSE IF outcome = "none"
                    THEN [made EXCEPT !.notes = notification_create(@,
                                          <<"player", player.pk>>, "invoice_due")]
                    ELSE [made EXCEPT !.errors = Append(@, [player |-> player.pk,
                                                            reason |-> outcome]),
                                      !.broken = (outcome = "save")]

RECURSIVE invoice_loop(_, _, _, _, _, _, _)
invoice_loop(st, players, i, c, jm, fee, outcomes) ==
    IF i > Len(players) THEN st
    ELSE LET pk == players[i].pk
             outcome == IF pk \in DOMAIN outcomes THEN outcomes[pk] ELSE "none"
         IN invoice_loop(invoice_step(st, players[i], c, jm, fee, outcome),
                         players, i + 1, c, jm, fee, outcomes)

\* generate_monthly_invoices under @transaction.atomic: the batch it returns and
\* the tables after the block is left
generate_monthly_invoices(rows, notes, c, jm, fee, outcomes) ==
    LET st == invoice_loop([rows |-> rows, notes |-> notes, invoices |-> <<>>,
                            skipped |-> 0, errors |-> <<>>, broken |-> FALSE],
                           active_players(c), 1, c, jm, fee, outcomes)
    IN [invoices |-> atomic(rows, st.rows, ~st.broken),
        notifications |-> atomic(notes, st.notes, ~st.broken),
        committed |-> ~st.broken,
        batch |-> [created_count |-> Len(st.invoices), skipped_count |-> st.skipped,
                   error_count |-> Len(st.errors), invoices |-> st.invoices,
                   errors |-> st.errors]]

\* request.user of the staff pages
Staff == {"admin"}

\* ------------------------------------------------------------ finance: the store
\* The (coach, category) pairs that have a CoachCategoryRate row.
RateKeys == {<<r.coach, r.category>> : r \in CoachCategoryRates}

\* session_rate and monthly_fee values entered in the forms (rials, no decimals)
Rates == {100, 150}

Fees == {500, 800}

\* -------------------------------------------------------------- history records
NoOp ==
    [op |-> "init", category |-> "c1", month |-> JalaliMonth(1403, 12), sheet |-> 0,
     created |-> FALSE, path |-> "none", session |-> 0, ok |-> TRUE, written |-> 0,
     replaced |-> FALSE, players |-> {}, coaches |-> {}, matrix |-> <<>>,
     salary |-> 0, result |-> <<>>, notified |-> TRUE]

NoCall == [valid |-> FALSE, category |-> "c1", month |-> JalaliMonth(1403, 12),
           sheet |-> 0, changed |-> FALSE, clock |-> JalaliMonth(1403, 12)]

\* What a list of entries asks for: for every entity it names, the status of the
\* last entry that names it.
Named(data, idkey) ==
    {data[i][idkey] : i \in {j \in DOMAIN data : idkey \in DOMAIN data[j]}}

Asked(data, idkey) ==
    {[id |-> e,
      status |-> LET i == SetMax({j \in DOMAIN data :
                                    idkey \in DOMAIN data[j] /\ data[j][idkey] = e})
                 IN IF "status" \in DOMAIN data[i] THEN data[i].status ELSE "absent"] :
        e \in Named(data, idkey)}

\* Whether a list of entries names a pair that has a row with another status.
Overwrites(rows, session_pk, asked, idkey) ==
    \E a \in asked : \E r \in rows :
        r.session = session_pk /\ r[idkey] = a.id /\ r.status # a.status

\* The window of months the clock runs through.
FirstMonth == JalaliMonth(1403, 12)

LastMonth == JalaliMonth(1404, 1)

\* The months requested from the matrix page (?year=&month=): those of the window,
\* which are the current and the next month before the clock moves, and the past
\* and the current month after it.
RequestMonths == {FirstMonth, LastMonth}

Init ==
    /\ current = FirstMonth
    /\ schedules = {ScheduleRow("c1", <<"sat", 17>>)}
    /\ sheets = {}
    /\ session_dates = {}
    /\ player_att = {}
    /\ coach_att = {}
    /\ last = NoOp
    /\ prevCall = NoCall
    /\ salaries = {}
    /\ rate_of = [r \in RateKeys |-> 100]
    /\ invoices = {}
    /\ monthly_fee = [c \in Categories |-> 500]
    /\ notifications = {}
    /\ today = JDate(1403, 12, 28)
    /\ reminders = {}
    /\ calls = [record |-> <<>>, finalize |-> <<>>]

\* The wall clock crosses a month boundary.
Tick ==
    /\ current # LastMonth
    /\ current' = next_month(current)
    /\ last' = [NoOp EXCEPT !.op = "tick"]
    /\ UNCHANGED <<payvars, insvars, racevars>>
    /\ UNCHANGED <<schedules, sheets, session_dates, player_att, coach_att, prevCall>>

\* ScheduleManageView.post
AddSchedule(c, slot) ==
    /\ schedules' = schedules \cup {ScheduleRow(c, slot)}
    /\ last' = [NoOp EXCEPT !.op = "add_schedule", !.category = c]
    /\ prevCall' = IF prevCall.category = c /\ schedules' # schedules
                   THEN [prevCall EXCEPT !.changed = TRUE] ELSE prevCall
    /\ UNCHANGED <<payvars, insvars, racevars>>
    /\ UNCHANGED <<current, sheets, session_dates, player_att, coach_att>>

\* ScheduleDeleteView.post
DeleteSchedule(row) ==
    /\ schedules' = schedules \ {row}
    /\ last' = [NoOp EXCEPT !.op = "delete_schedule", !.category = row.category]
    /\ prevCall' = IF prevCall.category = row.category
                   THEN [prevCall EXCEPT !.changed = TRUE] ELSE prevCall
    /\ UNCHANGED <<payvars, insvars, racevars>>
    /\ UNCHANGED <<current, sheets, session_dates, player_att, coach_att>>

\* FinalizeAttendanceSheetView.post -> AttendanceService.finalize_sheet
FinalizeSheet(sheet_pk) ==
    \E by \in Staff :
    \E r \in {finalize_sheet(sheets, sheet_pk, current, by)} :
    /\ sheets' = r.sheets
    /\ last' = [NoOp EXCEPT !.op = "finalize_sheet", !.sheet = sheet_pk, !.ok = r.ok,
                            !.result = <<by>>]
    /\ UNCHANGED <<payvars, insvars, racevars>>
    /\ UNCHANGED <<current, schedules, session_dates, player_att, coach_att,
                   prevCall>>

\* AttendanceMatrixView: build_attendance_matrix, which first gets or creates the sheet
BuildAttendanceMatrix(c, jm) ==
    \E tie \in TieOrders :
    \E r \in {get_or_create_sheet(sheets, session_dates, c, jm, current, schedules)} :
       /\ sheets' = r.sheets
       /\ session_dates' = r.session_dates
       /\ last' = [NoOp EXCEPT !.op = "build_attendance_matrix", !.category = c,
                               !.month = jm, !.sheet = r.sheet, !.created = r.created,
                               !.path = r.path,
                               !.matrix = matrix_result(r.sheet, r.session_dates,
                                                        player_att, coach_att, c,
                                                        tie)]
       /\ prevCall' = [valid |-> TRUE, category |-> c, month |-> jm, sheet |-> r.sheet,
                       changed |-> FALSE, clock |-> current]
       /\ UNCHANGED <<payvars, insvars, racevars>>
       /\ UNCHANGED <<current, schedules, player_att, coach_att>>

\* The dictionaries a caller may pass; a key may be missing.
PlayerEntries ==
    {[player_id |-> 1, status |-> "present", note |-> "n"],
     [player_id |-> 1, status |-> "excused"],
     [player_id |-> 2],
     [status |-> "present"]}

CoachEntries ==
    {[coach_id |-> 1, status |-> "present"],
     [coach_id |-> 1, note |-> "n"],
     [status |-> "excused"]}

ListsOf(S, n) == UNION {[1..k -> S] : k \in 0..n}

\* The two lists of one request: at most MaxEntries entries in all.
Payloads ==
    UNION {{<<pdata, cdata>> : cdata \in ListsOf(CoachEntries, MaxEntries - Len(pdata))} :
              pdata \in ListsOf(PlayerEntries, MaxEntries)}

\* The payload of the roll call taken while the schedule is being edited.
RollCall ==
    <<  <<[player_id |-> 1, status |-> "present", note |-> "n"], [player_id |-> 2]>>,
        <<[coach_id |-> 1, status |-> "present"]>>  >>

\* get_object_or_404(SessionDate, pk=session_pk) for the pks a request carries
SessionPks == {sd.pk : sd \in session_dates} \cap {1, 2}

RecordPlayerAttendance(session_pk, attendance_data) ==
    \E r \in {record_player_attendance(sheets, session_dates, player_att, session_pk,
                                       attendance_data)} :
       /\ player_att' = r.rows
       /\ last' = [NoOp EXCEPT !.op = "record_player_attendance", !.session = session_pk,
                               !.ok = r.ok, !.written = IF r.written > 0 THEN 1 ELSE 0,
                               !.replaced = r.ok /\ Overwrites(player_att, session_pk,
                                                Asked(attendance_data, "player_id"), "player"),
                               !.players = IF r.ok THEN Asked(attendance_data, "player_id")
                                           ELSE {}]
       /\ UNCHANGED <<payvars, insvars, racevars>>
       /\ UNCHANGED <<current, schedules, sheets, session_dates, coach_att, prevCall>>

RecordCoachAttendance(session_pk, attendance_data) ==
    \E r \in {record_coach_attendance(sheets, session_dates, coach_att, session_pk,
                                      attendance_data)} :
       /\ coach_att' = r.rows
       /\ last' = [NoOp EXCEPT !.op = "record_coach_attendance", !.session = session_pk,
                               !.ok = r.ok, !.written = IF r.written > 0 THEN 1 ELSE 0,
                               !.replaced = r.ok /\ Overwrites(coach_att, session_pk,
                                                Asked(attendance_data, "coach_id"), "coach"),
                               !.coaches = IF r.ok THEN Asked(attendance_data, "coach_id")
                                           ELSE {}]
       /\ UNCHANGED <<payvars, insvars, racevars>>
       /\ UNCHANGED <<current, schedules, sheets, session_dates, player_att, prevCall>>

\* RecordSessionAttendanceView.post -> AttendanceService.record_full_session
RecordFullSession(session_pk, player_data, coach_data) ==
    \E r \in {record_full_session(sheets, session_dates, player_att, coach_att,
                                  session_pk, player_data, coach_data)} :
       /\ player_att' = r.players
       /\ coach_att' = r.coaches
       /\ last' = [NoOp EXCEPT !.op = "record_full_session", !.session = session_pk,
                               !.ok = r.ok, !.written = IF r.written > 0 THEN 1 ELSE 0,
                               !.replaced =
                                    r.ok /\ (\/ Overwrites(player_att, session_pk,
                                                  Asked(player_data, "player_id"), "player")
                                             \/ Overwrites(coach_att, session_pk,
                                                  Asked(coach_data, "coach_id"), "coach")),
                               !.players = IF r.ok THEN Asked(player_data, "player_id")
                                           ELSE {},
                               !.coaches = IF r.ok THEN Asked(coach_data, "coach_id")
                                           ELSE {}]
       /\ UNCHANGED <<payvars, insvars, racevars>>
       /\ UNCHANGED <<current, schedules, sheets, session_dates, prevCall>>

Next ==
    \/ Tick
    \/ \E c \in RequestCategories, slot \in ScheduleSlots : AddSchedule(c, slot)
    \/ \E row \in schedules : DeleteSchedule(row)
    \/ \E c \in RequestCategories, jm \in RequestMonths : BuildAttendanceMatrix(c, jm)
    \/ \E sheet \in sheets : FinalizeSheet(sheet.pk)
    \/ \E pk \in SessionPks \cap {1} : RecordPlayerAttendance(pk, RollCall[1])
    \/ \E pk \in SessionPks \cap {1} : RecordCoachAttendance(pk, RollCall[2])
    \/ \E pk \in SessionPks \cap {1} : RecordFullSession(pk, RollCall[1], RollCall[2])

Spec == Init /\ [][Next]_vars

\* The recording pages over one month: no clock step, the sheet is reached
\* through the matrix page.
NextRecord ==
    \/ \E c \in RequestCategories, jm \in RequestMonths : BuildAttendanceMatrix(c, jm)
    \/ \E pk \in SessionPks, payload \in Payloads :
            RecordFullSession(pk, payload[1], payload[2])

SpecRecord == Init /\ [][NextRecord]_vars

\* ----------------------------------------------------- the sheet and its schedule
\* The matrix page asked for the category whose two coaches share a surname.
MatrixCategories == {"c2"}

NextMatrix ==
    \/ Tick
    \/ \E c \in MatrixCategories, slot \in ScheduleSlots : AddSchedule(c, slot)
    \/ \E c \in MatrixCategories, jm \in RequestMonths : BuildAttendanceMatrix(c, jm)

SpecMatrix == Init /\ [][NextMatrix]_vars

\* The schedule rows of the form, two of them on the same weekday.
SheetSlots == ScheduleSlots \cup {<<"sat", 19>>}

\* The matrix page while the schedule is edited, down to no row at all, and the
\* clock moves.
NextSheet ==
    \/ Tick
    \/ \E c \in RequestCategories, slot \in SheetSlots : AddSchedule(c, slot)
    \/ \E row \in schedules : DeleteSchedule(row)
    \/ \E c \in RequestCategories, jm \in RequestMonths : BuildAttendanceMatrix(c, jm)

SpecSheet == Init /\ [][NextSheet]_vars

\* ------------------------------------------- payroll_service.py: insurance sweep
\* CustomUser rows, named by the Player or Coach they belong to.
player_user(player_pk) == <<"player", player_pk>>

coach_user(coach_pk) == <<"coach", coach_pk>>

\* CustomUser.objects.filter(is_technical_director=True, is_active=True): the
\* user of coach 1 is also a technical director.
technical_directors == {coach_user(1), <<"staff", "director">>}

\* Variant: an expired insurance still counts as expiring soon.
is_insurance_expiring_or_expired(player, now, days) ==
    IF player.insurance_expiry_date # <<>> /\ player.insurance_status = "active"
    THEN LET delta == togregorian(player.insurance_expiry_date[1]) - togregorian(now)
         IN delta <= days
    ELSE FALSE

\* Player.is_insurance_expiring_soon
is_insurance_expiring_soon(player, now, days) ==
    IF player.insurance_expiry_date # <<>> /\ player.insurance_status = "active"
    THEN LET delta == togregorian(player.insurance_expiry_date[1]) - togregorian(now)
         IN 0 <= delta /\ delta <= days
    ELSE FALSE

\* Player.objects.filter(insurance_status="active", is_archived=False,
\*     status="approved").exclude(insurance_expiry_date__isnull=True)
expiring_players ==
    {pl \in Players : /\ pl.insurance_status = "active"
                      /\ ~pl.is_archived
                      /\ pl.status = "approved"
                      /\ pl.insurance_expiry_date # <<>>}

\* The users the sweep turns to for one player, in its order: the player, the
\* coaches holding an active rate in a category of the player, the directors.
sweep_recipients(player) ==
    LET rates == SetToSeq({rate \in CoachCategoryRates :
                              rate.is_active /\ rate.category \in player.categories})
    IN (IF player.has_user THEN <<player_user(player.pk)>> ELSE <<>>)
         \o [i \in DOMAIN rates |-> coach_user(rates[i].coach)]
         \o SetToSeq(technical_directors)

\* Variant: a read reminder blocks a new one as well.
already_notified_read_or_not(rows, user, player_pk) ==
    \E n \in rows : n.recipient = user /\ n.related_player = player_pk

\* Notification.objects.filter(recipient=, type=INSURANCE_EXPIRY, is_read=False,
\*                             related_player=).exists()
already_notified(rows, user, player_pk) ==
    \E n \in rows : n.recipient = user /\ ~n.is_read /\ n.related_player = player_pk

RECURSIVE notify_loop(_, _, _, _)
notify_loop(rows, player_pk, users, i) ==
    IF i > Len(users) THEN rows
    ELSE IF already_notified(rows, users[i], player_pk)
    THEN notify_loop(rows, player_pk, users, i + 1)
    ELSE notify_loop(rows \cup {[pk |-> NextPk(rows),
                                  recipient |-> users[i],
                                  related_player |-> player_pk, is_read |-> FALSE]},
                     player_pk, users, i + 1)

RECURSIVE sweep_loop(_, _, _, _, _)
sweep_loop(rows, players, i, now, days_ahead) ==
    IF i > Len(players) THEN rows
    ELSE IF ~is_insurance_expiring_soon(players[i], now, days_ahead)
    THEN sweep_loop(rows, players, i + 1, now, days_ahead)
    ELSE sweep_loop(notify_loop(rows, players[i].pk, sweep_recipients(players[i]), 1),
                    players, i + 1, now, days_ahead)

\* send_insurance_expiry_notifications(days_ahead): the table afterwards and count
send_insurance_expiry_notifications(rows, now, days_ahead) ==
    LET after == sweep_loop(rows, SetToSeq(expiring_players), 1, now, days_ahead)
    IN [reminders |-> after, count |-> Cardinality(after) - Cardinality(rows)]

\* ---------------------------------------------------------- the daily sweep
\* The sweep runs in the last days of 1403 and the first of 1404.
LastDay == JDate(1404, 1, 2)

\* The users who open their notifications.
Readers == {player_user(2), coach_user(1)}

MaxReminders == 8

\* jdatetime.date.today() a day later
next_day(jd) ==
    IF jd.day < days_in_month(JalaliMonth(jd.year, jd.month))
    THEN JDate(jd.year, jd.month, jd.day + 1)
    ELSE LET jm == next_month(JalaliMonth(jd.year, jd.month))
         IN JDate(jm.year, jm.month, 1)

NextDay ==
    /\ today # LastDay
    /\ today' = next_day(today)
    /\ last' = [NoOp EXCEPT !.op = "next_day"]
    /\ UNCHANGED <<current, reminders>>
    /\ UNCHANGED <<attvars, payvars, racevars>>

\* check_insurance_expiry_task: the sweep with days_ahead=30
CheckInsuranceExpiryTask ==
    \E r \in {send_insurance_expiry_notifications(reminders, today, 30)} :
    /\ Cardinality(reminders) <= MaxReminders
    /\ reminders' = r.reminders
    /\ last' = [NoOp EXCEPT !.op = "check_insurance_expiry_task",
                            !.result = <<r.count, today>>]
    /\ UNCHANGED <<current, today>>
    /\ UNCHANGED <<attvars, payvars, racevars>>

\* NotificationMarkAllReadView.post
NotificationMarkAllRead(user) ==
    /\ reminders' = {IF n.recipient = user THEN [n EXCEPT !.is_read = TRUE] ELSE n :
                        n \in reminders}
    /\ last' = [NoOp EXCEPT !.op = "notification_mark_all_read", !.result = <<user>>]
    /\ UNCHANGED <<current, today>>
    /\ UNCHANGED <<attvars, payvars, racevars>>

NextInsurance ==
    \/ NextDay
    \/ CheckInsuranceExpiryTask
    \/ \E user \in Readers : NotificationMarkAllRead(user)

SpecInsurance == Init /\ [][NextInsurance]_vars

\* ------------------------------------------------- excel_import_service.py
\* Strings are sequences of one-character strings; None is <<"None">>, which no
\* string is.
None == <<"None">>

Digits == {"0", "1", "2", "3", "4", "5", "6", "7", "8", "9"}

INSURANCE_RED ==
    {<<"F", "F", "F", "F", "0", "0", "0", "0">>,
     <<"F", "F", "F", "A", "0", "0", "0", "0">>,
     <<"F", "F", "D", "C", "1", "4", "3", "C">>,
     <<"F", "F", "C", "C", "0", "0", "0", "0">>}

INSURANCE_YELLOW ==
    {<<"F", "F", "F", "F", "F", "F", "0", "0">>,
     <<"F", "F", "F", "F", "D", "7", "0", "0">>,
     <<"F", "F", "F", "F", "C", "1", "0", "7">>,
     <<"F", "F", "F", "F", "F", "4", "4", "F">>}

INSURANCE_GREEN ==
    {<<"F", "F", "0", "0", "F", "F", "0", "0">>,
     <<"F", "F", "0", "0", "8", "0", "0", "0">>,
     <<"F", "F", "0", "0", "B", "0", "5", "0">>,
     <<"F", "F", "9", "2", "D", "0", "5", "0">>,
     <<"F", "F", "7", "0", "A", "D", "4", "7">>,
     <<"F", "F", "0", "0", "F", "F", "7", "F">>}

\* str.upper() on the characters of a colour code
upper_char(c) ==
    CASE c = "a" -> "A" [] c = "b" -> "B" [] c = "c" -> "C" [] c = "d" -> "D"
      [] c = "e" -> "E" [] c = "f" -> "F" [] OTHER -> c

RECURSIVE lstrip(_, _)
lstrip(s, c) == IF s # <<>> /\ Head(s) = c THEN lstrip(Tail(s), c) ELSE s

RECURSIVE rstrip(_, _)
rstrip(s, c) ==
    IF s # <<>> /\ s[Len(s)] = c THEN rstrip(SubSeq(s, 1, Len(s) - 1), c) ELSE s

\* str.strip()
strip(s) == rstrip(lstrip(s, " "), " ")

\* _normalise_hex
normalise_hex(hex_str) ==
    IF hex_str = None \/ hex_str = <<>> THEN None
    ELSE LET h == lstrip([i \in DOMAIN hex_str |-> upper_char(hex_str[i])], "#")
         IN IF Len(h) = 8 THEN h
            ELSE IF Len(h) = 6 THEN <<"F", "F">> \o h
            ELSE None

\* str.translate(_PERSIAN_TO_LATIN)
persian_to_latin(c) ==
    CASE c = "۰" -> "0" [] c = "۱" -> "1" [] c = "۲" -> "2" [] c = "۳" -> "3"
      [] c = "۴" -> "4" [] c = "۵" -> "5" [] c = "۶" -> "6" [] c = "۷" -> "7"
      [] c = "۸" -> "8" [] c = "۹" -> "9"
      [] OTHER -> c

\* _normalize_date_str: Latin digits, no outer blanks, "/" for "-" and "."
normalize_date_str(raw) ==
    LET s == strip([i \in DOMAIN raw |-> persian_to_latin(raw[i])])
    IN [i \in DOMAIN s |-> IF s[i] \in {"-", "."} THEN "/" ELSE s[i]]

IsDigitOrSlash(c) == c \in Digits \cup {"/"}

\* str.split("/")
RECURSIVE split(_, _)
split(s, part) ==
    IF s = <<>> THEN <<part>>
    ELSE IF Head(s) = "/" THEN <<part>> \o split(Tail(s), <<>>)
    ELSE split(Tail(s), Append(part, Head(s)))

digit_value(c) ==
    CASE c = "0" -> 0 [] c = "1" -> 1 [] c = "2" -> 2 [] c = "3" -> 3 [] c = "4" -> 4
      [] c = "5" -> 5 [] c = "6" -> 6 [] c = "7" -> 7 [] c = "8" -> 8 [] c = "9" -> 9

\* int() of a string of digits; the empty string is a ValueError, here -1
RECURSIVE int(_)
int(s) ==
    IF s = <<>> THEN -1
    ELSE IF Len(s) = 1 THEN digit_value(s[1])
    ELSE LET high == int(SubSeq(s, 1, Len(s) - 1))
         IN high * 10 + digit_value(s[Len(s)])

\* jalali_to_gregorian of a cell: a datetime.date is returned as it is, a string
\* is parsed; the result is <<ordinal>> or <<>> for None.
jalali_to_gregorian(raw) ==
    IF raw = None THEN <<>>
    ELSE IF raw[1] = "datetime.date" THEN <<raw[2]>>
    ELSE LET raw_str == SelectSeq(normalize_date_str(raw), IsDigitOrSlash)
         IN IF raw_str = <<>> \/ raw_str = <<"0">> \/ Len(raw_str) < 6 THEN <<>>
            ELSE IF ~("/" \in {raw_str[i] : i \in DOMAIN raw_str}) /\ Len(raw_str) # 8
            THEN <<>>
            ELSE LET parts == IF "/" \in {raw_str[i] : i \in DOMAIN raw_str}
                              THEN split(raw_str, <<>>)
                              ELSE <<SubSeq(raw_str, 1, 4), SubSeq(raw_str, 5, 6),
                                     SubSeq(raw_str, 7, 8)>>
                 IN IF Len(parts) # 3 THEN <<>>
                    ELSE IF \E i \in 1..3 : parts[i] = <<>> THEN <<>>
                    ELSE LET y == int(parts[1])
                             m == int(parts[2])
                             d == int(parts[3])
                         IN IF ~(1300 <= y /\ y <= 1420) THEN <<>>
                            ELSE IF ~(1 <= m /\ m <= 12) \/ ~(1 <= d /\ d <= 31)
                            THEN <<>>
                            ELSE IF d > days_in_month(JalaliMonth(y, m)) THEN <<>>
                            ELSE <<togregorian(JDate(y, m, d))>>

\* The status the fill colour stands for
colour_status_of(fill_color) ==
    LET hex_norm == normalise_hex(fill_color)
    IN IF hex_norm = None THEN "none"
       ELSE IF hex_norm \in INSURANCE_RED THEN "expired"
       ELSE IF hex_norm \in INSURANCE_YELLOW THEN "near_expiry"
       ELSE IF hex_norm \in INSURANCE_GREEN THEN "active"
       ELSE "none"

\* if cell_value and str(cell_value).strip() not in ("", "nan", "None")
cell_has_text(cell_value) ==
    /\ cell_value # None
    /\ cell_value # <<>>
    /\ \/ cell_value[1] = "datetime.date"
       \/ strip(cell_value) \notin {<<>>, <<"n", "a", "n">>, <<"N", "o", "n", "e">>}

\* Variant: a recognised fill colour decides before the date does.
detect_insurance_colour_first(cell_value, fill_color, now) ==
    LET colour_status == colour_status_of(fill_color)
        expiry_date == IF cell_has_text(cell_value)
                       THEN jalali_to_gregorian(cell_value) ELSE <<>>
    IN [status |-> IF colour_status # "none" THEN colour_status
                   ELSE IF expiry_date = <<>> THEN "none"
                   ELSE IF expiry_date[1] < now THEN "expired"
                   ELSE IF expiry_date[1] - now <= 30 THEN "near_expiry"
                   ELSE "active",
        expiry_date |-> expiry_date]

\* detect_insurance; now is datetime.date.today() as an ordinal
detect_insurance(cell_value, fill_color, now) ==
    LET colour_status == colour_status_of(fill_color)
        expiry_date == IF cell_has_text(cell_value)
                       THEN jalali_to_gregorian(cell_value) ELSE <<>>
    IN [status |-> IF expiry_date # <<>>
                   THEN IF expiry_date[1] < now THEN "expired"
                        ELSE IF expiry_date[1] - now <= 30 THEN "near_expiry"
                        ELSE "active"
                   ELSE IF colour_status # "none" THEN colour_status
                   ELSE "none",
        expiry_date |-> expiry_date]

\* --------------------------------------------------------- the import of a cell
\* Insurance cells of a sheet, each with the date it is meant to hold (<<>> for
\* none): slash, dash, compact and Persian-digit dates, a date cell, a day that
\* does not exist, a year out of range, text and blanks.
CellValues ==
    {[value |-> None, means |-> <<>>],
     [value |-> <<>>, means |-> <<>>],
     [value |-> <<" ">>, means |-> <<>>],
     [value |-> <<"n", "a", "n">>, means |-> <<>>],
     [value |-> <<"a", "b", "c">>, means |-> <<>>],
     [value |-> <<"1", "4", "0", "3", "/", "1", "2", "/", "2", "0">>, means |-> <<JDate(1403, 12, 20)>>],
     [value |-> <<" ", "1", "4", "0", "3", "/", "1", "2", "/", "3", "0", " ">>, means |-> <<JDate(1403, 12, 30)>>],
     [value |-> <<"1", "4", "0", "4", "-", "0", "1", "-", "2", "8">>, means |-> <<JDate(1404, 1, 28)>>],
     [value |-> <<"1", "4", "0", "4", "0", "3", "0", "1">>, means |-> <<JDate(1404, 3, 1)>>],
     [value |-> <<"۱", "۴", "۰", "۴", "/", "۰", "۲", "/", "۰", "۱">>, means |-> <<JDate(1404, 2, 1)>>],
     [value |-> <<"datetime.date", togregorian(JDate(1404, 1, 1))>>,
      means |-> <<JDate(1404, 1, 1)>>],
     [value |-> <<"1", "4", "0", "4", "/", "1", "2", "/", "3", "0">>, means |-> <<>>],
     [value |-> <<"1", "2", "9", "9", "/", "0", "1", "/", "0", "1">>, means |-> <<>>],
     [value |-> <<"1", "4", "0", "4", "3", "1">>, means |-> <<>>]}

\* Fill colours of a cell, each with the colour it is meant to be.
FillColours ==
    {[value |-> None, means |-> "none"],
     [value |-> <<"F", "F", "F", "F", "0", "0", "0", "0">>, means |-> "red"],
     [value |-> <<"d", "c", "1", "4", "3", "c">>, means |-> "red"],
     [value |-> <<"#", "F", "F", "D", "7", "0", "0">>, means |-> "yellow"],
     [value |-> <<"F", "F", "0", "0", "B", "0", "5", "0">>, means |-> "green"],
     [value |-> <<"F", "F", "F", "F", "F", "F", "F", "F">>, means |-> "none"],
     [value |-> <<"F", "0", "0">>, means |-> "none"]}

\* ExcelImportService reads an insurance cell
DetectInsurance(cell, fill) ==
    \E r \in {detect_insurance(cell.value, fill.value, togregorian(today))} :
    /\ last' = [NoOp EXCEPT !.op = "detect_insurance", !.result = <<r, cell, fill>>]
    /\ UNCHANGED <<current, today, reminders>>
    /\ UNCHANGED <<attvars, payvars, racevars>>

NextImport ==
    \/ NextDay
    \/ \E cell \in CellValues, fill \in FillColours : DetectInsurance(cell, fill)

SpecImport == Init /\ [][NextImport]_vars

\* ------------------------------------------------------------ the session page
\* What a browser may send in a status field: any string.
PostedStatuses == {"present", "late"}

\* The status fields of one form: player_<pk>_status and coach_<pk>_status
PostFields(c) ==
    {<<"player", matrix_players(c)[i].pk>> : i \in DOMAIN matrix_players(c)}
        \cup {<<"coach", matrix_coaches(c, "ascending")[i].pk>> :
                    i \in DOMAIN matrix_coaches(c, "ascending")}

\* request.POST: some of the fields, each with a posted string
PostedForms(c) == UNION {[fields -> PostedStatuses] : fields \in SUBSET PostFields(c)}

\* request.POST.get(key, "absent")
post_get(form, key) == IF key \in DOMAIN form THEN form[key] ELSE "absent"

\* SessionAttendanceDetailView.post: one entry per eligible player and coach of
\* the sheet's category, then record_full_session.
post_player_data(c, form) ==
    LET players == matrix_players(c)
    IN [i \in DOMAIN players |->
            [player_id |-> players[i].pk,
             status |-> post_get(form, <<"player", players[i].pk>>),
             note |-> ""]]

post_coach_data(c, form) ==
    LET coaches == matrix_coaches(c, "ascending")
    IN [i \in DOMAIN coaches |->
            [coach_id |-> coaches[i].pk,
             status |-> post_get(form, <<"coach", coaches[i].pk>>),
             note |-> ""]]

SessionAttendancePost(session_pk, form) ==
    LET session == CHOOSE sd \in session_dates : sd.pk = session_pk
        sheet == CHOOSE sh \in sheets : sh.pk = session.sheet
        player_data == post_player_data(sheet.category, form)
        coach_data == post_coach_data(sheet.category, form)
    IN IF sheet.is_finalized
       THEN /\ last' = [NoOp EXCEPT !.op = "session_attendance_post",
                                    !.session = session_pk, !.ok = FALSE]
            /\ UNCHANGED <<payvars, insvars, racevars>>
            /\ UNCHANGED <<current, schedules, sheets, session_dates, player_att,
                           coach_att, prevCall>>
       ELSE \E r \in {record_full_session(sheets, session_dates, player_att, coach_att,
                                          session_pk, player_data, coach_data)} :
            /\ player_att' = r.players
            /\ coach_att' = r.coaches
            /\ last' = [NoOp EXCEPT !.op = "session_attendance_post",
                                    !.session = session_pk, !.ok = r.ok,
                                    !.players = Asked(player_data, "player_id"),
                                    !.coaches = Asked(coach_data, "coach_id")]
            /\ UNCHANGED <<payvars, insvars, racevars>>
            /\ UNCHANGED <<current, schedules, sheets, session_dates, prevCall>>

\* The session page of the first session, the matrix page and the lock.
NextSession ==
    \/ \E c \in RequestCategories, slot \in ScheduleSlots : AddSchedule(c, slot)
    \/ \E c \in RequestCategories : BuildAttendanceMatrix(c, FirstMonth)
    \/ \E sheet \in sheets : FinalizeSheet(sheet.pk)
    \/ \E pk \in SessionPks \cap {1}, form \in PostedForms("c1") :
            SessionAttendancePost(pk, form)

SpecSession == Init /\ [][NextSession]_vars

\* ------------------------------------------------ two requests side by side
\* SessionAttendanceDetailView.post and FinalizeAttendanceSheetView.post taken
\* apart: each first loads its objects with get_object_or_404, outside any
\* transaction, and then runs the service under @transaction.atomic, which
\* tests the is_finalized of the object loaded before.

\* SessionAttendanceDetailView.post: session = get_object_or_404(...);
\* sheet = session.sheet
RecordLoad(session_pk, form) ==
    /\ calls.record = <<>>
    /\ LET session == CHOOSE sd \in session_dates : sd.pk = session_pk
           sheet == CHOOSE sh \in sheets : sh.pk = session.sheet
       IN calls' = [calls EXCEPT !.record = <<[session |-> session_pk, sheet |-> sheet,
                                               form |-> form]>>]
    /\ last' = [NoOp EXCEPT !.op = "record_load", !.session = session_pk]
    /\ UNCHANGED <<current, attvars, payvars, insvars>>

\* The rest of the view: its own test of sheet.is_finalized, the form, and
\* record_full_session, whose two calls test session.sheet.is_finalized on the
\* loaded sheet and write to the tables as they are now.
RecordCommit ==
    /\ calls.record # <<>>
    /\ LET call == calls.record[1]
           player_data == post_player_data(call.sheet.category, call.form)
           coach_data == post_coach_data(call.sheet.category, call.form)
       IN IF call.sheet.is_finalized
          THEN /\ last' = [NoOp EXCEPT !.op = "record_commit",
                                       !.session = call.session, !.ok = FALSE]
               /\ UNCHANGED <<player_att, coach_att>>
          ELSE \E r \in {record_full_session({call.sheet}, session_dates, player_att,
                                             coach_att, call.session, player_data,
                                             coach_data)} :
               /\ player_att' = r.players
               /\ coach_att' = r.coaches
               /\ last' = [NoOp EXCEPT !.op = "record_commit",
                                       !.session = call.session, !.ok = r.ok,
                                       !.sheet = call.sheet.pk]
    /\ calls' = [calls EXCEPT !.record = <<>>]
    /\ UNCHANGED <<current, schedules, sheets, session_dates, prevCall>>
    /\ UNCHANGED <<payvars, insvars>>

\* FinalizeAttendanceSheetView.post: sheet = get_object_or_404(...)
FinalizeLoad(sheet_pk) ==
    /\ calls.finalize = <<>>
    /\ calls' = [calls EXCEPT !.finalize =
                        <<CHOOSE sh \in sheets : sh.pk = sheet_pk>>]
    /\ last' = [NoOp EXCEPT !.op = "finalize_load", !.sheet = sheet_pk]
    /\ UNCHANGED <<current, attvars, payvars, insvars>>

\* finalize_sheet on the loaded sheet; save(update_fields=[...]) writes the
\* three fields of the row.
FinalizeCommit ==
    /\ calls.finalize # <<>>
    /\ \E by \in Staff :
       \E r \in {finalize_sheet({calls.finalize[1]}, calls.finalize[1].pk, current, by)} :
       /\ sheets' = IF r.ok
                    THEN {IF sh.pk = calls.finalize[1].pk
                          THEN [sh EXCEPT !.is_finalized = TRUE,
                                          !.finalized_at = <<current>>,
                                          !.finalized_by = <<by>>]
                          ELSE sh : sh \in sheets}
                    ELSE sheets
       /\ last' = [NoOp EXCEPT !.op = "finalize_commit",
                               !.sheet = calls.finalize[1].pk, !.ok = r.ok]
    /\ calls' = [calls EXCEPT !.finalize = <<>>]
    /\ UNCHANGED <<current, schedules, session_dates, player_att, coach_att, prevCall>>
    /\ UNCHANGED <<payvars, insvars>>

NextRace ==
    \/ \E c \in RequestCategories : BuildAttendanceMatrix(c, FirstMonth)
    \/ \E pk \in SessionPks \cap {1}, form \in PostedForms("c1") : RecordLoad(pk, form)
    \/ RecordCommit
    \/ \E sheet \in sheets : FinalizeLoad(sheet.pk)
    \/ FinalizeCommit

SpecRace == Init /\ [][NextRace]_vars

\* --------------------------------------------------------- month navigation
\* The years the month links are followed through.
NavigationYears == 1401 .. 1405

\* The "next month" link of a page: m.next_month, and the way back from it
NextMonthLink ==
    \E r \in {next_month(current)} :
    /\ r.year \in NavigationYears
    /\ current' = r
    /\ last' = [NoOp EXCEPT !.op = "next_month", !.month = current,
                            !.result = <<r, prev_month(r)>>]
    /\ UNCHANGED <<payvars, insvars, racevars>>
    /\ UNCHANGED <<attvars, insvars, racevars>>

\* The "previous month" link of a page: m.prev_month, and the way back from it
PrevMonthLink ==
    \E r \in {prev_month(current)} :
    /\ r.year \in NavigationYears
    /\ current' = r
    /\ last' = [NoOp EXCEPT !.op = "prev_month", !.month = current,
                            !.result = <<r, next_month(r)>>]
    /\ UNCHANGED <<payvars, insvars, racevars>>
    /\ UNCHANGED <<attvars, insvars, racevars>>

NextNavigation == NextMonthLink \/ PrevMonthLink

SpecNavigation == Init /\ [][NextNavigation]_vars

\* ------------------------------------------------------------- the salary pages
\* manual_adjustment values of the form
Adjustments == {0, 50}

\* The coaches whose salary is requested: 1 has an active rate in c1, 2 an
\* inactive one.
SalaryCoaches == {1, 2}

\* The roll calls of the coach on the salary pages' sheet.
CoachRollCalls ==
    {<<[coach_id |-> 1, status |-> "present"]>>,
     <<[coach_id |-> 1, status |-> "excused"]>>}

\* CoachRateManageView.post for a pair whose rate is active
CoachRateManage(coach, c, rate) ==
    /\ rate_of' = [rate_of EXCEPT ![<<coach, c>>] = rate]
    /\ last' = [NoOp EXCEPT !.op = "coach_rate_manage", !.category = c]
    /\ UNCHANGED <<current, salaries, invoices, monthly_fee, notifications>>
    /\ UNCHANGED <<attvars, insvars, racevars>>

\* CoachSalaryCalculateView.get: the preview
CalculateCoachSalary(coach, c, jm, adj) ==
    \E bd \in {calculate_coach_salary(rate_of, sheets, session_dates, coach_att,
                                       salaries, coach, c, jm, adj)} :
    /\ last' = [NoOp EXCEPT !.op = "calculate_coach_salary", !.category = c,
                            !.month = jm, !.ok = bd.ok, !.result = bd]
    /\ UNCHANGED <<current, salaries, rate_of, invoices, monthly_fee, notifications>>
    /\ UNCHANGED <<attvars, insvars, racevars>>

\* CoachSalaryCalculateView.post: calculate, then commit; any exception of the
\* two becomes an error message
CommitCoachSalary(coach, c, jm, adj, notified) ==
    \E bd \in {calculate_coach_salary(rate_of, sheets, session_dates, coach_att,
                                       salaries, coach, c, jm, adj)} :
    IF ~bd.ok
    THEN /\ last' = [NoOp EXCEPT !.op = "commit_coach_salary", !.category = c,
                                 !.month = jm, !.ok = FALSE, !.result = bd,
                                 !.path = "calculate"]
         /\ UNCHANGED <<current, salaries, rate_of, invoices, monthly_fee,
                        notifications>>
         /\ UNCHANGED <<attvars, insvars, racevars>>
    ELSE \E r \in {commit_coach_salary(sheets, salaries, notifications, bd, "admin",
                                        notified)} :
         /\ salaries' = r.salaries
         /\ notifications' = r.notifications
         /\ last' = [NoOp EXCEPT !.op = "commit_coach_salary", !.category = c,
                                 !.month = jm, !.ok = r.ok, !.salary = r.salary,
                                 !.result = bd, !.notified = notified,
                                 !.path = "commit"]
         /\ UNCHANGED <<current, rate_of, invoices, monthly_fee>>
         /\ UNCHANGED <<attvars, insvars, racevars>>

\* ApproveSalaryView.post: 404 unless the salary is calculated
ApproveSalaryView(salary_pk) ==
    LET salary == CHOOSE s \in salaries : s.pk = salary_pk
        found == salary.status = "calculated"
    IN /\ salaries' = IF found
                      THEN (salaries \ {salary})
                           \cup {[salary EXCEPT !.status = "approved"]}
                      ELSE salaries
       /\ last' = [NoOp EXCEPT !.op = "approve_salary_view", !.salary = salary_pk,
                               !.ok = found]
       /\ UNCHANGED <<current, rate_of, invoices, monthly_fee, notifications>>
       /\ UNCHANGED <<attvars, insvars, racevars>>

\* PayrollService.approve_salary
ApproveSalary(salary_pk) ==
    \E by \in Staff :
    \E r \in {approve_salary(salaries, salary_pk, by)} :
    /\ salaries' = r.salaries
    /\ last' = [NoOp EXCEPT !.op = "approve_salary", !.salary = salary_pk, !.ok = r.ok]
    /\ UNCHANGED <<current, rate_of, invoices, monthly_fee, notifications>>
    /\ UNCHANGED <<attvars, insvars, racevars>>

\* PayrollService.mark_salary_paid
MarkSalaryPaid(salary_pk) ==
    \E by \in Staff :
    \E r \in {mark_salary_paid(salaries, salary_pk, current, by)} :
    /\ salaries' = r.salaries
    /\ last' = [NoOp EXCEPT !.op = "mark_salary_paid", !.salary = salary_pk,
                            !.ok = r.ok, !.result = <<by>>]
    /\ UNCHANGED <<current, rate_of, invoices, monthly_fee, notifications>>
    /\ UNCHANGED <<attvars, insvars, racevars>>

\* MarkSalaryPaidView.post, the handler of salary/<pk>/pay/.  receipt is "none"
\* (no file), "bad" (refused by _validate_image) or "image".  The status is not
\* tested: with an image the salary becomes paid whatever it was.  The
\* notification is created after the save, outside any transaction.
MarkSalaryPaidView(salary_pk, receipt, notified) ==
    \E by \in Staff :
    LET salary == CHOOSE s \in salaries : s.pk = salary_pk
        saved == receipt = "image"
    IN /\ salaries' = IF saved
                      THEN (salaries \ {salary})
                           \cup {[salary EXCEPT !.status = "paid",
                                                !.paid_at = <<current>>,
                                                !.processed_by = <<by>>]}
                      ELSE salaries
       /\ notifications' = IF saved /\ notified
                           THEN notification_create(notifications,
                                    <<"coach", salary.coach>>, "salary_paid")
                           ELSE notifications
       /\ last' = [NoOp EXCEPT !.op = "mark_salary_paid_view", !.salary = salary_pk,
                               !.ok = saved, !.notified = notified, !.result = <<by>>]
       /\ UNCHANGED <<current, rate_of, invoices, monthly_fee>>
       /\ UNCHANGED <<attvars, insvars, racevars>>

\* CoachConfirmSalaryView.post by the coach user: refused unless user is the
\* salary's coach; "confirm" acts on a paid salary only, "dispute" notifies the
\* finance managers and writes nothing on the salary.
CoachConfirmSalaryView(salary_pk, user, action) ==
    LET salary == CHOOSE s \in salaries : s.pk = salary_pk
        owner == salary.coach = user
        confirmed == owner /\ action = "confirm" /\ salary.status = "paid"
        disputed == owner /\ ~confirmed /\ action = "dispute"
    IN /\ salaries' = IF confirmed
                      THEN (salaries \ {salary})
                           \cup {[salary EXCEPT !.status = "confirmed",
                                                !.coach_confirmed = TRUE,
                                                !.coach_confirmed_at = <<current>>]}
                      ELSE salaries
       /\ notifications' = IF confirmed \/ disputed
                           THEN notification_create(notifications, <<"finance", 0>>,
                                                    "general")
                           ELSE notifications
       /\ last' = [NoOp EXCEPT !.op = "coach_confirm_salary", !.salary = salary_pk,
                               !.ok = confirmed, !.path = action]
       /\ UNCHANGED <<current, rate_of, invoices, monthly_fee>>
       /\ UNCHANGED <<attvars, insvars, racevars>>

SalaryPks == {s.pk : s \in salaries}

NextSalary ==
    \/ Tick
    \/ BuildAttendanceMatrix("c1", FirstMonth)
    \/ \E pk \in SessionPks \cap {1}, data \in CoachRollCalls :
            RecordCoachAttendance(pk, data)
    \/ \E rate \in Rates : CoachRateManage(1, "c1", rate)
    \/ \E coach \in SalaryCoaches, jm \in RequestMonths, adj \in Adjustments :
            CalculateCoachSalary(coach, "c1", jm, adj)
    \/ \E coach \in SalaryCoaches, jm \in RequestMonths, adj \in Adjustments,
          notified \in BOOLEAN : CommitCoachSalary(coach, "c1", jm, adj, notified)
    \/ \E pk \in SalaryPks : ApproveSalaryView(pk)
    \/ \E pk \in SalaryPks : ApproveSalary(pk)
    \/ \E pk \in SalaryPks : MarkSalaryPaid(pk)
    \/ \E pk \in SalaryPks, receipt \in {"none", "bad", "image"}, notified \in BOOLEAN :
            MarkSalaryPaidView(pk, receipt, notified)
    \/ \E pk \in SalaryPks, user \in {1, 3}, action \in {"confirm", "dispute"} :
            CoachConfirmSalaryView(pk, user, action)

SpecSalary == Init /\ [][NextSalary]_vars

\* ------------------------------------------------------------ the invoice pages
\* The outcomes of the notifications of one run, per player of some category
\* with a user account
Outcomes == [{pl.pk : pl \in {x \in Players : /\ x.has_user
                                               /\ x.status = "approved"
                                               /\ x.categories # {}}}
                -> NotifyOutcomes]

\* amount and discount values of the admin form
Amounts == {0, 500}

Discounts == {0, 200, 500, 800}

\* GenerateMonthlyInvoicesView.post.  last.replaced records that the run directly
\* follows a run for the same category and month.
GenerateMonthlyInvoices(c, jm, outcomes) ==
    \E r \in {generate_monthly_invoices(invoices, notifications, c, jm, monthly_fee[c],
                                         outcomes)} :
    /\ invoices' = r.invoices
    /\ notifications' = r.notifications
    /\ last' = [NoOp EXCEPT !.op = "generate_monthly_invoices", !.category = c,
                            !.month = jm, !.ok = r.committed,
                            !.result = [batch |-> r.batch, outcomes |-> outcomes],
                            !.replaced = /\ last.op = "generate_monthly_invoices"
                                         /\ last.category = c /\ last.month = jm]
    /\ UNCHANGED <<current, salaries, rate_of, monthly_fee>>
    /\ UNCHANGED <<attvars, insvars, racevars>>

\* generate_monthly_invoices_task: generate_invoices_all_categories for the
\* current month, one transaction per category
GenerateInvoicesTask(outcomes) ==
    \E r1 \in {generate_monthly_invoices(invoices, notifications, "c1", current,
                                          monthly_fee["c1"], outcomes)} :
    \E r2 \in {generate_monthly_invoices(r1.invoices, r1.notifications, "c2", current,
                                          monthly_fee["c2"], outcomes)} :
    /\ invoices' = r2.invoices
    /\ notifications' = r2.notifications
    /\ last' = [NoOp EXCEPT !.op = "generate_monthly_invoices_task", !.month = current,
                            !.ok = r1.committed /\ r2.committed,
                            !.result = [c1 |-> r1.batch, c2 |-> r2.batch]]
    /\ UNCHANGED <<current, salaries, rate_of, monthly_fee>>
    /\ UNCHANGED <<attvars, insvars, racevars>>

\* CategoryUpdateView: the form saves monthly_fee
CategoryUpdate(c, fee) ==
    /\ monthly_fee' = [monthly_fee EXCEPT ![c] = fee]
    /\ last' = [NoOp EXCEPT !.op = "category_update", !.category = c]
    /\ UNCHANGED <<current, salaries, rate_of, invoices, notifications>>
    /\ UNCHANGED <<attvars, insvars, racevars>>

\* InvoiceStatusUpdateView.post: a valid status is stored through save
InvoiceStatusUpdate(invoice_pk, new_status) ==
    LET invoice == CHOOSE r \in invoices : r.pk = invoice_pk
        valid == new_status \in {"pending", "paid", "debtor", "pending_confirm"}
    IN \E w \in {IF valid
                  THEN PlayerInvoice_save(invoices, [invoice EXCEPT !.status = new_status])
                  ELSE [ok |-> FALSE, rows |-> invoices]} :
       /\ invoices' = w.rows
       /\ last' = [NoOp EXCEPT !.op = "invoice_status_update", !.sheet = invoice_pk,
                               !.ok = w.ok]
       /\ UNCHANGED <<current, salaries, rate_of, monthly_fee, notifications>>
       /\ UNCHANGED <<attvars, insvars, racevars>>

\* PlayerInvoiceAdmin, add form: a new invoice with the amount and the discount of
\* the form, saved through PlayerInvoice.save; unique_together refuses a second
\* invoice of the key
AdminAddInvoice(player, c, jm, amount, discount) ==
    LET key == [player |-> player, category |-> c, jalali_year |-> jm.year,
                jalali_month |-> jm.month]
        row == [pk |-> NextPk(invoices), player |-> player, category |-> c,
                jalali_year |-> jm.year, jalali_month |-> jm.month, amount |-> amount,
                discount |-> discount, final_amount |-> 0, status |-> "pending"]
    IN \E w \in {IF invoice_of_key(invoices, key) # {}
                  THEN [ok |-> FALSE, rows |-> invoices]
                  ELSE PlayerInvoice_save(invoices, row)} :
       /\ invoices' = w.rows
       /\ last' = [NoOp EXCEPT !.op = "invoice_save", !.sheet = row.pk, !.ok = w.ok,
                               !.result = <<amount, discount>>, !.path = "add"]
       /\ UNCHANGED <<current, salaries, rate_of, monthly_fee, notifications>>
       /\ UNCHANGED <<attvars, insvars, racevars>>

\* PlayerInvoiceAdmin, change form: amount and discount of an invoice are edited
AdminChangeInvoice(invoice_pk, amount, discount) ==
    LET invoice == CHOOSE r \in invoices : r.pk = invoice_pk
    IN \E w \in {PlayerInvoice_save(invoices, [invoice EXCEPT !.amount = amount,
                                                              !.discount = discount])} :
       /\ invoices' = w.rows
       /\ last' = [NoOp EXCEPT !.op = "invoice_save", !.sheet = invoice_pk, !.ok = w.ok,
                               !.result = <<amount, discount>>, !.path = "change"]
       /\ UNCHANGED <<current, salaries, rate_of, monthly_fee, notifications>>
       /\ UNCHANGED <<attvars, insvars, racevars>>

InvoicePks == {r.pk : r \in invoices}

NextInvoice ==
    \/ \E c \in Categories, outcomes \in Outcomes :
            GenerateMonthlyInvoices(c, FirstMonth, outcomes)
    \/ \E outcomes \in Outcomes : GenerateInvoicesTask(outcomes)
    \/ \E fee \in Fees : CategoryUpdate("c1", fee)
    \/ \E pk \in InvoicePks \cap {1}, status \in {"paid", "pending", "void"} :
            InvoiceStatusUpdate(pk, status)
    \/ \E amount \in Amounts, discount \in Discounts :
            AdminAddInvoice(1, "c1", FirstMonth, amount, discount)
    \/ \E pk \in InvoicePks \cap {1}, amount \in Amounts, discount \in Discounts :
            AdminChangeInvoice(pk, amount, discount)

SpecInvoice == Init /\ [][NextInvoice]_vars

\* ==================================================================== claims
\* Helpers of the statements below, written without the model's operators.
MonthNumber(jm) == jm.year * 12 + jm.month

SheetCallStep == last'.op = "build_attendance_matrix"

RowsOfSheet(rows, sheet_pk) == {r \in rows : r.sheet = sheet_pk}

OrdinalWeekday(date) == (date - 738965 + 4) % 7

\* C1: a request for a month strictly after the current Jalali month creates no
\* AttendanceSheet and no SessionDate; it returns the sheet that already exists for
\* (category, month), or None (0), and created = False.
C1_FutureMonthNeverCreates ==
    [][ (SheetCallStep /\ MonthNumber(last'.month) > MonthNumber(current))
          => /\ sheets' = sheets
             /\ session_dates' = session_dates
             /\ last'.created = FALSE
             /\ LET there == {sh \in sheets : /\ sh.category = last'.category
                                             /\ sh.jalali_year = last'.month.year
                                             /\ sh.jalali_month = last'.month.month}
                IN IF there = {} THEN last'.sheet = 0
                   ELSE last'.sheet \in {sh.pk : sh \in there} ]_vars

\* A request for the month after the current one was answered with None while a
\* sheet of the current month exists.
C1_Witness ==
    /\ last.op = "build_attendance_matrix"
    /\ MonthNumber(last.month) > MonthNumber(current)
    /\ last.sheet = 0
    /\ sheets # {}
    /\ last.month.year > current.year

\* C2: two requests for the same (category, month) return the same sheet, no two
\* SessionDate rows of a sheet share a date, and the second request adds no session
\* when the schedule did not change in between.  (Two requests made in the same
\* clock month, or the first of which returned a sheet.)
C2_SameSheetNoDuplicates ==
    [][ (/\ SheetCallStep
         /\ prevCall.valid
         /\ prevCall.category = last'.category
         /\ prevCall.month = last'.month
         /\ (prevCall.sheet # 0 \/ prevCall.clock = current))
          => /\ last'.sheet = prevCall.sheet
             /\ \A a, b \in session_dates' :
                    (a.sheet = b.sheet /\ a.date = b.date) => a = b
             /\ (~prevCall.changed => session_dates' = session_dates) ]_vars

\* C2 as stated, whatever happened between the two requests: the same sheet is
\* returned both times.
C2_SameSheetAlways ==
    [][ (/\ SheetCallStep
         /\ prevCall.valid
         /\ prevCall.category = last'.category
         /\ prevCall.month = last'.month)
          => /\ last'.sheet = prevCall.sheet
             /\ \A a, b \in session_dates' :
                    (a.sheet = b.sheet /\ a.date = b.date) => a = b
             /\ (~prevCall.changed => session_dates' = session_dates) ]_vars

\* The second of two requests for the current month, on a sheet with sessions.
C2_Witness ==
    /\ last.op = "build_attendance_matrix"
    /\ last.path = "sync"
    /\ ~prevCall.changed
    /\ RowsOfSheet(session_dates, last.sheet) # {}

\* C3: the dates a synchronization inserts are numbered M + 1, M + 2, ... in date
\* order, M being the largest session_number of the sheet before the call.
C3_SyncNumbersContinue ==
    [][ (/\ SheetCallStep
         /\ ~last'.created
         /\ last'.sheet # 0
         /\ MonthNumber(last'.month) = MonthNumber(current))
          => LET before == RowsOfSheet(session_dates, last'.sheet)
                 M == IF before = {} THEN 0
                      ELSE CHOOSE n \in {r.session_number : r \in before} :
                              \A r \in before : r.session_number <= n
                 inserted == session_dates' \ session_dates
             IN \A r \in inserted :
                    r.session_number =
                        M + Cardinality({q \in inserted : q.date <= r.date}) ]_vars

\* C4: a request on an existing sheet deletes no SessionDate and changes neither
\* date nor session_number of one, and leaves every attendance row as it was and
\* attached to its session.
C4_SyncKeepsSessions ==
    [][ (SheetCallStep /\ ~last'.created)
          => /\ session_dates \subseteq session_dates'
             /\ player_att' = player_att
             /\ coach_att' = coach_att
             /\ \A a \in player_att' \cup coach_att' :
                    \E sd \in session_dates' : sd.pk = a.session ]_vars

\* A synchronization that inserted Tuesday sessions after the Saturday row of the
\* schedule was removed, on a sheet with recorded attendance.
C4_Witness ==
    /\ last.op = "build_attendance_matrix"
    /\ last.path = "sync"
    /\ player_att # {}
    /\ coach_att # {}
    /\ \A row \in schedules : row.weekday # "sat"
    /\ \E sd \in RowsOfSheet(session_dates, last.sheet) : OrdinalWeekday(sd.date) = 0
    /\ \E sd \in RowsOfSheet(session_dates, last.sheet) : OrdinalWeekday(sd.date) = 3

\* C5: no request adds a SessionDate to a sheet that is finalized.
C5_FinalizedSheetGetsNoSession ==
    [][ \A sh \in sheets :
            sh.is_finalized =>
                RowsOfSheet(session_dates', sh.pk) = RowsOfSheet(session_dates, sh.pk) ]_vars

RecordOps == {"record_player_attendance", "record_coach_attendance", "record_full_session"}

SheetOfSessionFinalized(session_pk) ==
    \E sd \in session_dates : /\ sd.pk = session_pk
                              /\ \E sh \in sheets : sh.pk = sd.sheet /\ sh.is_finalized

\* C6: each of the three record operations fails on a session whose sheet is
\* finalized, and the PlayerAttendance and CoachAttendance rows after the failed
\* call are exactly those before it.
C6_FinalizedSheetRejectsRecording ==
    [][ (last'.op \in RecordOps /\ SheetOfSessionFinalized(last'.session))
          => /\ ~last'.ok
             /\ player_att' = player_att
             /\ coach_att' = coach_att ]_vars

\* A full-session record was refused on a finalized sheet that holds attendance
\* rows of players and coaches.
C6_Witness ==
    /\ last.op = "record_full_session"
    /\ ~last.ok
    /\ SheetOfSessionFinalized(last.session)
    /\ \E a \in player_att : a.session = last.session
    /\ \E a \in coach_att : a.session = last.session

\* C7: a record_full_session that fails leaves the attendance rows that existed
\* before the call: none of the rows it wrote before failing remains.
C7_FullSessionAllOrNothing ==
    [][ (last'.op = "record_full_session" /\ ~last'.ok)
          => (player_att' = player_att /\ coach_att' = coach_att) ]_vars

\* A call failed after it had written entries, on a store that already held rows.
C7_Witness ==
    /\ last.op = "record_full_session"
    /\ ~last.ok
    /\ last.written = 1
    /\ player_att # {}

\* C8: there is at most one attendance row per (session, player) and per
\* (session, coach); after a record call each pair it named has exactly one row,
\* whose status is the one the call gave last for that pair.
C8_OneRowLatestStatus ==
    [][ /\ \A a, b \in player_att' :
              (a.session = b.session /\ a.player = b.player) => a = b
        /\ \A a, b \in coach_att' :
              (a.session = b.session /\ a.coach = b.coach) => a = b
        /\ (last'.op \in RecordOps /\ last'.ok)
              => /\ \A e \in last'.players :
                      {a.status : a \in {x \in player_att' : /\ x.session = last'.session
                                                             /\ x.player = e.id}}
                          = {e.status}
                 /\ \A e \in last'.coaches :
                      {a.status : a \in {x \in coach_att' : /\ x.session = last'.session
                                                            /\ x.coach = e.id}}
                          = {e.status} ]_vars

\* A call gave a pair that already had a row another status.
C8_Witness ==
    /\ last.op = "record_full_session"
    /\ last.ok
    /\ last.replaced
    /\ \E e \in last.players : e.status = "excused"

\* C9: a record call changes only rows of the pairs (session, entity) its entries
\* name: every other row is left as it was and no row appears for another pair.
C9_RecordingIsAPatch ==
    [][ last'.op \in RecordOps
          => /\ \A a \in player_att :
                    (a.session # last'.session
                        \/ a.player \notin {e.id : e \in last'.players})
                      => a \in player_att'
             /\ \A a \in player_att' \ player_att :
                    /\ a.session = last'.session
                    /\ a.player \in {e.id : e \in last'.players}
             /\ \A a \in coach_att :
                    (a.session # last'.session
                        \/ a.coach \notin {e.id : e \in last'.coaches})
                      => a \in coach_att'
             /\ \A a \in coach_att' \ coach_att :
                    /\ a.session = last'.session
                    /\ a.coach \in {e.id : e \in last'.coaches} ]_vars

\* A call that named player 1 alone, on a session that holds a row of player 2,
\* while another session holds rows too.
C9_Witness ==
    /\ last.op = "record_full_session"
    /\ last.ok
    /\ {e.id : e \in last.players} = {1}
    /\ \E a \in player_att : a.session = last.session /\ a.player = 2
    /\ \E a \in player_att : a.session # last.session
    /\ \E a \in coach_att : a.session # last.session

EligiblePlayers(c) ==
    {q.pk : q \in {pl \in Players : /\ c \in pl.categories
                                   /\ pl.status = "approved"
                                   /\ pl.is_archived = FALSE}}

EligibleCoaches(c) ==
    {q.pk : q \in {co \in Coaches :
                      /\ co.is_active
                      /\ \E rate \in CoachCategoryRates :
                            rate.coach = co.pk /\ rate.category = c /\ rate.is_active}}

\* One row per entity of ids; each row maps exactly the sessions sids, to the
\* recorded status or to absent.
RowsComplete(rows_seq, ids, sids, att, idkey) ==
    /\ Len(rows_seq) = Cardinality(ids)
    /\ {rows_seq[i].entity_id : i \in DOMAIN rows_seq} = ids
    /\ \A i \in DOMAIN rows_seq :
          /\ DOMAIN rows_seq[i].sessions = sids
          /\ \A sid \in sids :
                LET recorded == {a.status : a \in {x \in att : /\ x.session = sid
                                                              /\ x[idkey] = rows_seq[i].entity_id}}
                IN IF recorded = {} THEN rows_seq[i].sessions[sid] = "absent"
                   ELSE rows_seq[i].sessions[sid] \in recorded

SheetsOfMonth(shs, c, jm) ==
    {sh.pk : sh \in {x \in shs : /\ x.category = c
                                 /\ x.jalali_year = jm.year
                                 /\ x.jalali_month = jm.month}}

\* C10: when the month has a sheet after the call (always for the current and a
\* past month) the matrix has exactly one player row per approved, non-archived
\* player of the category and one coach row per active coach with an active rate
\* in it, and every row maps exactly the sessions of that sheet to the recorded
\* status, or to absent without a record; when it has none (a future month) the
\* matrix has no row and no session.
C10_MatrixComplete ==
    [][ SheetCallStep
          => LET m == last'.matrix
                 c == last'.category
                 of_month == SheetsOfMonth(sheets', c, last'.month)
                 sids == {sd.pk : sd \in {x \in session_dates' : x.sheet \in of_month}}
             IN IF of_month = {}
                THEN /\ m.sheet = 0
                     /\ m.session_dates = <<>>
                     /\ m.player_rows = <<>>
                     /\ m.coach_rows = <<>>
                ELSE /\ of_month = {m.sheet}
                     /\ Len(m.session_dates) = Cardinality(sids)
                     /\ {m.session_dates[i] : i \in DOMAIN m.session_dates} = sids
                     /\ RowsComplete(m.player_rows, EligiblePlayers(c), sids,
                                     player_att', "player")
                     /\ RowsComplete(m.coach_rows, EligibleCoaches(c), sids,
                                     coach_att', "coach") ]_vars

\* C10 as stated, for every month: one row per eligible player and coach.
C10_MatrixCompleteAnyMonth ==
    [][ SheetCallStep
          => LET m == last'.matrix
                 c == last'.category
                 of_month == SheetsOfMonth(sheets', c, last'.month)
                 sids == {sd.pk : sd \in {x \in session_dates' : x.sheet \in of_month}}
             IN /\ RowsComplete(m.player_rows, EligiblePlayers(c), sids,
                                player_att', "player")
                /\ RowsComplete(m.coach_rows, EligibleCoaches(c), sids,
                                coach_att', "coach") ]_vars

\* A matrix over several sessions that shows a recorded status and the default.
C10_Witness ==
    /\ last.op = "build_attendance_matrix"
    /\ last.matrix.sheet # 0
    /\ Len(last.matrix.session_dates) >= 2
    /\ Len(last.matrix.player_rows) = 2
    /\ Len(last.matrix.coach_rows) = 1
    /\ \E i \in DOMAIN last.matrix.player_rows :
          LET row == last.matrix.player_rows[i].sessions
          IN /\ \E sid \in DOMAIN row : row[sid] = "excused"
             /\ \E sid \in DOMAIN row : row[sid] = "absent"
    /\ \E sid \in DOMAIN last.matrix.coach_rows[1].sessions :
          last.matrix.coach_rows[1].sessions[sid] = "present"
\* ---------------------------------------------------------------------------
\* C11: finalize_sheet on an already finalized sheet fails and changes nothing; on
\* a non-finalized sheet it sets is_finalized, finalized_at (the time of the call)
\* and finalized_by (the caller); and a sheet that is finalized is finalized in
\* every later state, whatever operation of the attendance service runs.
C11_FinalizeOnceForever ==
    [][ /\ \A sh \in sheets :
              sh.is_finalized =>
                  \E t \in sheets' : /\ t.pk = sh.pk /\ t.is_finalized
                                     /\ t.finalized_at = sh.finalized_at
                                     /\ t.finalized_by = sh.finalized_by
        /\ last'.op = "finalize_sheet" =>
              LET before == CHOOSE sh \in sheets : sh.pk = last'.sheet
                  after == CHOOSE sh \in sheets' : sh.pk = last'.sheet
              IN IF before.is_finalized
                 THEN /\ ~last'.ok
                      /\ sheets' = sheets
                      /\ UNCHANGED <<session_dates, player_att, coach_att>>
                 ELSE /\ last'.ok
                      /\ after.is_finalized
                      /\ after.finalized_at = <<current>>
                      /\ after.finalized_by = last'.result
                      /\ sheets' \ {after} = sheets \ {before} ]_vars

\* a second finalize of a sheet was refused, in a month after the one of the first
C11_Witness ==
    /\ last.op = "finalize_sheet"
    /\ ~last.ok
    /\ \E sh \in sheets : /\ sh.pk = last.sheet /\ sh.is_finalized
                          /\ sh.finalized_at # <<current>>
                          /\ sh.finalized_by = last.result

\* ---------------------------------------------------------------------------
\* Helpers of the salary statements.
SalaryEdges ==
    {<<"calculated", "approved">>, <<"approved", "paid">>, <<"paid", "confirmed">>}

SalaryOf(rows, pk) == CHOOSE s \in rows : s.pk = pk

\* C12: under any sequence of commit, approve, mark-paid, confirm and dispute
\* operations every change of the status of a stored CoachSalary is one of the
\* edges calculated -> approved, approved -> paid, paid -> confirmed.
C12_SalaryStatusMachine ==
    [][ \A s \in salaries : \A t \in salaries' :
            (t.pk = s.pk /\ t.status # s.status) =>
                <<s.status, t.status>> \in SalaryEdges ]_vars

\* C13: marking a salary paid, by the service or by the salary-pay handler,
\* succeeds only from approved and then sets status paid, the paid timestamp and
\* the processor; from calculated, paid or confirmed it fails and leaves status
\* and paid_at as they were.
C13_PaidOnlyFromApproved ==
    [][ last'.op \in {"mark_salary_paid", "mark_salary_paid_view"} =>
            LET before == SalaryOf(salaries, last'.salary)
                after == SalaryOf(salaries', last'.salary)
            IN IF before.status = "approved"
               THEN last'.ok => /\ after.status = "paid"
                                /\ after.paid_at = <<current>>
                                /\ after.processed_by = last'.result
               ELSE /\ ~last'.ok
                    /\ after.status = before.status
                    /\ after.paid_at = before.paid_at ]_vars

\* C14: every breakdown returned by calculate_coach_salary has session_rate the
\* rate of the (coach, category), sessions_attended the number of present
\* coach-attendance rows of the coach in the month's sheet, sessions_total the
\* number of sessions of that sheet, base_amount = session_rate x sessions_attended,
\* final_amount = base_amount + manual_adjustment and sessions_absent >= 0; and
\* the call leaves every table as it was.
C14_BreakdownArithmetic ==
    [][ last'.op = "calculate_coach_salary" =>
          /\ UNCHANGED <<schedules, sheets, session_dates, player_att, coach_att,
                         salaries, rate_of, invoices, monthly_fee, notifications>>
          /\ last'.ok =>
                LET bd == last'.result
                    sheet_pks == {sh.pk : sh \in {s \in sheets :
                                     /\ s.category = bd.category
                                     /\ s.jalali_year = bd.jalali_month.year
                                     /\ s.jalali_month = bd.jalali_month.month}}
                    sessions == {sd.pk : sd \in {d \in session_dates : d.sheet \in sheet_pks}}
                    present == {a \in coach_att : /\ a.coach = bd.coach
                                                  /\ a.session \in sessions
                                                  /\ a.status = "present"}
                IN /\ bd.session_rate = rate_of[<<bd.coach, bd.category>>]
                   /\ bd.sessions_total = Cardinality(sessions)
                   /\ bd.sessions_attended = Cardinality(present)
                   /\ bd.base_amount = bd.session_rate * bd.sessions_attended
                   /\ bd.final_amount = bd.base_amount + bd.manual_adjustment
                   /\ bd.sessions_absent >= 0 ]_vars

\* a breakdown with an adjustment, for a coach who attended one session at the
\* raised rate
C14_Witness ==
    /\ last.op = "calculate_coach_salary"
    /\ last.ok
    /\ last.result.sessions_attended = 1
    /\ last.result.manual_adjustment = 50
    /\ last.result.final_amount = 200

\* C15: after any sequence of commit_coach_salary calls there is at most one
\* CoachSalary per (coach, category, attendance sheet); a commit that returns
\* leaves the row of its key with the breakdown's sessions_attended,
\* session_rate and manual_adjustment, adding a row only when the key had none;
\* and every stored row has base_amount = sessions_attended x session_rate and
\* final_amount = base_amount + manual_adjustment.
C15_OneSalaryPerKey ==
    [][ /\ \A s, t \in salaries' :
              (/\ s.coach = t.coach /\ s.category = t.category
               /\ s.attendance_sheet = t.attendance_sheet) => s = t
        /\ \A s \in salaries' :
              /\ s.base_amount = s.sessions_attended * s.session_rate
              /\ s.final_amount = s.base_amount + s.manual_adjustment
        /\ (last'.op = "commit_coach_salary" /\ last'.ok) =>
              LET bd == last'.result
                  row == SalaryOf(salaries', last'.salary)
                  had == \E s \in salaries : /\ s.coach = row.coach
                                              /\ s.category = row.category
                                              /\ s.attendance_sheet = row.attendance_sheet
              IN /\ row.coach = bd.coach
                 /\ row.category = bd.category
                 /\ \E sh \in sheets : /\ sh.pk = row.attendance_sheet
                                       /\ sh.category = bd.category
                                       /\ sh.jalali_year = bd.jalali_month.year
                                       /\ sh.jalali_month = bd.jalali_month.month
                 /\ row.sessions_attended = bd.sessions_attended
                 /\ row.session_rate = bd.session_rate
                 /\ row.manual_adjustment = bd.manual_adjustment
                 /\ row.base_amount = bd.base_amount
                 /\ row.final_amount = bd.final_amount
                 /\ Cardinality(salaries') =
                        Cardinality(salaries) + (IF had THEN 0 ELSE 1)
                 /\ salaries' \ {row} = {s \in salaries : s.pk # row.pk} ]_vars

\* a salary that was paid before was committed again, with an adjustment and
\* another count of sessions than zero
C15_Witness ==
    /\ last.op = "commit_coach_salary"
    /\ last.ok
    /\ \E s \in salaries : /\ s.pk = last.salary
                            /\ s.paid_at # <<>>
                            /\ s.manual_adjustment = 50
                            /\ s.sessions_attended = 1
                            /\ s.session_rate = 150

\* C16: when creating the coach's notification fails inside commit_coach_salary
\* the salary row is still stored with the breakdown's amounts and the call
\* still returns it.
C16_NotificationFailureKeepsSalary ==
    [][ (/\ last'.op = "commit_coach_salary"
         /\ last'.path = "commit"
         /\ ~last'.notified) =>
            /\ last'.ok
            /\ \E s \in salaries' : /\ s.pk = last'.salary
                                     /\ s.coach = last'.result.coach
                                     /\ s.final_amount = last'.result.final_amount ]_vars

\* ---------------------------------------------------------------------------
\* Helpers of the invoice statements.
GenerateStep == last'.op = "generate_monthly_invoices"

SecondRunStep ==
    /\ last.op = "generate_monthly_invoices"
    /\ GenerateStep
    /\ last'.category = last.category
    /\ last'.month = last.month

OneInvoicePerKey(rows) ==
    \A r, s \in rows :
        (/\ r.player = s.player /\ r.category = s.category
         /\ r.jalali_year = s.jalali_year /\ r.jalali_month = s.jalali_month) => r = s

C18_ExistingInvoicesUntouched ==
    [][ (GenerateStep \/ last'.op = "generate_monthly_invoices_task") =>
            \A r \in invoices : r \in invoices' ]_vars

\* a run for c1 skipped a paid invoice whose amount is not the fee of the category
C18_Witness ==
    /\ last.op = "generate_monthly_invoices"
    /\ last.category = "c1"
    /\ last.result.batch.skipped_count >= 1
    /\ \E r \in invoices : /\ r.category = "c1"
                           /\ r.jalali_year = last.month.year
                           /\ r.jalali_month = last.month.month
                           /\ r.status = "paid"
                           /\ r.amount # monthly_fee["c1"]

\* C19: in a run of generate_monthly_invoices the player whose notification
\* fails is recorded in the errors list with a reason, and every eligible player
\* after that one in the order of the loop has an invoice for the month after
\* the run.
C19_FailureDoesNotAbortBatch ==
    [][ GenerateStep =>
          LET c == last'.category
              jm == last'.month
              outcomes == last'.result.outcomes
              eligible == {pl \in Players : /\ c \in pl.categories
                                            /\ pl.status = "approved" /\ ~pl.is_archived}
              has(rows, pl) == \E r \in rows : /\ r.player = pl.pk /\ r.category = c
                                                /\ r.jalali_year = jm.year
                                                /\ r.jalali_month = jm.month
              before(p, q) == \/ p.last_name < q.last_name
                              \/ (p.last_name = q.last_name /\ p.first_name < q.first_name)
              failing == {pl \in eligible : /\ pl.has_user /\ ~has(invoices, pl)
                                            /\ outcomes[pl.pk] # "none"}
          IN \A p \in failing :
                /\ \E i \in DOMAIN last'.result.batch.errors :
                        last'.result.batch.errors[i].player = p.pk
                /\ \A q \in eligible : before(p, q) => has(invoices', q) ]_vars

\* C20: saving a PlayerInvoice with discount > amount fails and stores nothing,
\* whatever the pair; every stored invoice has discount <= amount and
\* final_amount = amount - discount.
C20_DiscountNeverAboveAmount ==
    [][ /\ \A r \in invoices' : /\ r.discount <= r.amount
                                 /\ r.final_amount = r.amount - r.discount
        /\ (last'.op = "invoice_save" /\ last'.result[2] > last'.result[1]) =>
                /\ ~last'.ok
                /\ invoices' = invoices ]_vars

\* the change form was refused a discount above the amount on an invoice that
\* carries a discount
C20_Witness ==
    /\ last.op = "invoice_save"
    /\ last.path = "change"
    /\ last.result[2] > last.result[1]
    /\ ~last.ok
    /\ \E r \in invoices : r.pk = last.sheet /\ r.discount = 200 /\ r.final_amount = 300

\* ---------------------------------------------------------------------------
\* C30: in the batch returned by generate_monthly_invoices created_count +
\* skipped_count + error_count is the number of approved, non-archived players of
\* the category: every eligible player is counted once.
C30_BatchCountsPartition ==
    [][ GenerateStep =>
          LET batch == last'.result.batch
              eligible == {pl \in Players : /\ last'.category \in pl.categories
                                            /\ pl.status = "approved" /\ ~pl.is_archived}
          IN batch.created_count + batch.skipped_count + batch.error_count
                = Cardinality(eligible) ]_vars

\* ---------------------------------------------------------------------------
\* Helpers of the sheet statements: the Gregorian ordinals of the days of the two
\* months of the window (1403/12 has 30 days and ends the day before 1404/01/01).
MonthOrdinals(jm) ==
    IF jm.year = 1403 /\ jm.month = 12 THEN 739301..739330 ELSE 739331..739361

WeekdayNumber(w) ==
    CASE w = "sat" -> 0 [] w = "sun" -> 1 [] w = "mon" -> 2 [] w = "tue" -> 3
      [] w = "wed" -> 4 [] w = "thu" -> 5 [] w = "fri" -> 6

ScheduledOrdinals(c, jm) ==
    {d \in MonthOrdinals(jm) :
        \E row \in schedules : /\ row.category = c
                               /\ WeekdayNumber(row.weekday) = OrdinalWeekday(d)}

HadSheet(c, jm) ==
    \E sh \in sheets : /\ sh.category = c /\ sh.jalali_year = jm.year
                       /\ sh.jalali_month = jm.month

C24_PastSheetAsIs ==
    [][ (/\ SheetCallStep
         /\ MonthNumber(last'.month) < MonthNumber(current)
         /\ HadSheet(last'.category, last'.month)) =>
            /\ \E sh \in sheets : /\ sh.pk = last'.sheet
                                  /\ sh.category = last'.category
                                  /\ sh.jalali_year = last'.month.year
                                  /\ sh.jalali_month = last'.month.month
            /\ ~last'.created
            /\ UNCHANGED <<sheets, session_dates, player_att, coach_att>> ]_vars

\* the sheet of a past month was returned while the schedule has a Tuesday row
\* and the sheet has Saturday sessions only
C24_Witness ==
    /\ last.op = "build_attendance_matrix"
    /\ last.path = "past"
    /\ last.category = "c1"
    /\ \E row \in schedules : row.category = "c1" /\ row.weekday = "tue"
    /\ RowsOfSheet(session_dates, last.sheet) # {}
    /\ \A r \in RowsOfSheet(session_dates, last.sheet) : OrdinalWeekday(r.date) = 0


\* ---------------------------------------------------------------------------
\* C26: next_month of month 12 is month 1 of the next year and otherwise the next
\* month of the same year; prev_month of month 1 is month 12 of the year before
\* and otherwise the month before; both yield a month in 1..12, and each undoes
\* the other.
C26_MonthNavigation ==
    /\ last.op = "next_month" =>
          LET m == last.month
              r == last.result[1]
          IN /\ r.month \in 1..12
             /\ r = IF m.month = 12 THEN [year |-> m.year + 1, month |-> 1]
                    ELSE [year |-> m.year, month |-> m.month + 1]
             /\ last.result[2] = m
    /\ last.op = "prev_month" =>
          LET m == last.month
              r == last.result[1]
          IN /\ r.month \in 1..12
             /\ r = IF m.month = 1 THEN [year |-> m.year - 1, month |-> 12]
                    ELSE [year |-> m.year, month |-> m.month - 1]
             /\ last.result[2] = m

\* prev_month taken across a year boundary, back from the first month of a year
C26_Witness ==
    /\ last.op = "prev_month"
    /\ last.month.month = 1
    /\ last.result[1] = [year |-> last.month.year - 1, month |-> 12]
    /\ last.result[2] = last.month

\* Names of the entity a matrix row stands for, as one sort key
RowNameKey(row) ==
    IF row.entity_type = "player"
    THEN LET pl == CHOOSE x \in Players : x.pk = row.entity_id
         IN pl.last_name * 100 + pl.first_name
    ELSE LET co == CHOOSE x \in Coaches : x.pk = row.entity_id
         IN co.last_name * 100 + co.first_name

RowsInNameOrder(rows) ==
    \A i, j \in DOMAIN rows : i < j => RowNameKey(rows[i]) <= RowNameKey(rows[j])

ColumnsInDateOrder(cols, sds) ==
    \A i, j \in DOMAIN cols :
        i < j => (CHOOSE x \in sds : x.pk = cols[i]).date
                    < (CHOOSE x \in sds : x.pk = cols[j]).date

\* C25: every matrix lists its player rows and its coach rows by surname and
\* then first name, and its session columns by ascending date.
C25_MatrixOrdering ==
    [][(last'.op = "build_attendance_matrix" /\ last'.sheet # 0)
            => /\ RowsInNameOrder(last'.matrix.player_rows)
               /\ RowsInNameOrder(last'.matrix.coach_rows)
               /\ ColumnsInDateOrder(last'.matrix.session_dates, session_dates')]_vars

AttendanceStatuses == {"present", "absent", "excused"}

\* AttendanceMatrixRow.present_count, absent_count, excused_count
status_count(row, status) ==
    Cardinality({sid \in DOMAIN row.sessions : row.sessions[sid] = status})

RowCountsAddUp(row) ==
    status_count(row, "present") + status_count(row, "absent")
        + status_count(row, "excused") = Cardinality(DOMAIN row.sessions)

\* C29: every stored attendance row has a status among present, absent and
\* excused, whatever strings were sent, and the three counts of every matrix row
\* add up to the number of its sessions.
C29_StatusesValid ==
    /\ \A a \in player_att \cup coach_att : a.status \in AttendanceStatuses
    /\ last.op = "build_attendance_matrix" /\ last.sheet # 0
            => /\ \A i \in DOMAIN last.matrix.player_rows :
                        RowCountsAddUp(last.matrix.player_rows[i])
               /\ \A i \in DOMAIN last.matrix.coach_rows :
                        RowCountsAddUp(last.matrix.coach_rows[i])

PlayerOf(player_pk) == CHOOSE pl \in Players : pl.pk = player_pk

\* Expiry date minus the day, on the Gregorian equivalents
DaysLeft(player, now) ==
    togregorian(player.insurance_expiry_date[1]) - togregorian(now)

SweepStep == last'.op = "check_insurance_expiry_task"

\* C21: a sweep creates a reminder about a player only if the player is
\* approved, not archived, has active insurance with a known expiry date, and
\* the expiry is today or at most 30 days ahead.
C21_ReminderOnlyWhenDue ==
    [][SweepStep =>
        \A n \in reminders' \ reminders :
            LET player == PlayerOf(n.related_player)
            IN /\ player.status = "approved"
               /\ ~player.is_archived
               /\ player.insurance_status = "active"
               /\ player.insurance_expiry_date # <<>>
               /\ 0 <= DaysLeft(player, today)
               /\ DaysLeft(player, today) <= 30]_vars

\* A sweep created reminders on the day player 1 has exactly 30 days left, about
\* player 1 and about player 2, and none about the others.
C21_Witness ==
    /\ last.op = "check_insurance_expiry_task"
    /\ last.result[1] > 0
    /\ today = JDate(1403, 12, 29)
    /\ {n.related_player : n \in reminders} = {1, 2}

SamePair(a, b) == a.recipient = b.recipient /\ a.related_player = b.related_player

OneUnreadPerPair(rows) ==
    \A a, b \in rows : (SamePair(a, b) /\ ~a.is_read /\ ~b.is_read) => a = b

UnreadAbout(rows, user, player_pk) ==
    {n \in rows : n.recipient = user /\ n.related_player = player_pk /\ ~n.is_read}

InsuranceDue(player, now) ==
    /\ player.status = "approved"
    /\ ~player.is_archived
    /\ player.insurance_status = "active"
    /\ player.insurance_expiry_date # <<>>
    /\ 0 <= DaysLeft(player, now)
    /\ DaysLeft(player, now) <= 30

\* The (recipient, player) pairs a sweep of that day turns to
DuePairs(now) ==
    UNION {{<<sweep_recipients(pl)[i], pl.pk>> : i \in DOMAIN sweep_recipients(pl)} :
                pl \in {x \in Players : InsuranceDue(x, now)}}

\* C22: a sweep creates no reminder for a recipient who has an unread one about
\* the same player and creates one when the existing ones are all read; there
\* is never more than one unread reminder per recipient and player, and a sweep
\* directly after a sweep creates none.
C22_UnreadDedupe ==
    [][/\ OneUnreadPerPair(reminders')
       /\ SweepStep =>
            /\ \A n \in reminders' \ reminders :
                    UnreadAbout(reminders, n.recipient, n.related_player) = {}
            /\ \A pair \in DuePairs(today) :
                    UnreadAbout(reminders, pair[1], pair[2]) = {}
                        => Cardinality(UnreadAbout(reminders' \ reminders,
                                                   pair[1], pair[2])) = 1
            /\ last.op = "check_insurance_expiry_task" => reminders' = reminders]_vars

\* A sweep has renewed a reminder its recipient had read, next to one still
\* unread for another recipient since the sweep before.
C22_Witness ==
    /\ last.op = "check_insurance_expiry_task"
    /\ last.result[1] > 0
    /\ \E a, b \in reminders : SamePair(a, b) /\ a.is_read /\ ~b.is_read
    /\ \E a \in reminders :
            /\ ~a.is_read
            /\ \A b \in reminders : SamePair(a, b) => a = b

ColourMeaning(colour) ==
    CASE colour = "red" -> "expired" [] colour = "yellow" -> "near_expiry"
      [] colour = "green" -> "active" [] OTHER -> "none"

C28_NoWriteAfterFinalize ==
    [][(last'.op = "record_commit"
            /\ session_sheet_is_finalized(sheets, session_dates, last'.session))
        => (player_att' = player_att /\ coach_att' = coach_att)]_vars

====
